---- MODULE Spec2Model ----
(***************************************************************************)
(* Model of the cancellation core of github.com/aerth/mostly:              *)
(*   cancellable      - context + cancel-cause func (Cancel, Wait)         *)
(*   cancellable.Chan - cancellable + buffered channel                     *)
(*   superchan        - Chan + deferred funcs, the rundeferred runner and  *)
(*                      the workers of New, NewMain and NewDouble.         *)
(* The source holds two revisions of package superchan; they differ in     *)
(* NewMain's exit path and in NewDouble. The variable conf.rev selects the *)
(* revision (1: the one with mainSignalHandler / handledoublein, 2: the    *)
(* one with the inline workers).                                           *)
(***************************************************************************)
EXTENDS Naturals, Sequences, FiniteSets, TLC

\* ------------------------------------------------------------------ bounds
NumCallers == 3     \* concurrent Cancel callers
NumWaiters == 2     \* concurrent Wait callers
MaxPush    == 2     \* items a producer sends to the inbound channel
ChanCap    == 1     \* capacity of every channel (CHANBUFSIZE at construction)
MaxRuns    == 2     \* direct invocations of rundeferred on a raw Superchan
MaxSignals == 2     \* times the signal is raised
MaxSets    == 1     \* SetDeferred calls
MaxDefer   == 1     \* funcs given to Defer on a Superchan that has a worker
BufSize    == 3     \* CHANBUFSIZE of the channel that Updates / Updates2 drain
MaxSpin    == 2     \* zero values Updates2 is followed through on a closed channel
MaxRefresh == 1     \* calls of HttpServer.Refresh that do not panic

\* ------------------------------------------------------------------ values
Nil      == "nil"                 \* a nil error / nil func
Canceled == "context.Canceled"    \* cause recorded for Cancel(nil)
Errs     == {"E1", "E2"}          \* errors passed to Cancel by callers
PErr     == "EP"                  \* cause of a parent cancellation
ErrZ     == "errZ"                \* error returned by the handler for item Z
Sig      == "SIGINT"              \* the single signal NewMain is built with
SigErr   == "caught sig: SIGINT"  \* MakeSignalError(Sig)

Ctxs     == {"parent", "in", "out"}
Callers  == 1..NumCallers
Waiters  == 1..NumWaiters
OrderedSeq == <<"A", "B", "C">>   \* funcs given to Defer, in registration order
Ordered  == {"A", "B", "C"}
Hooks    == {"F", "L"} \cup Ordered

VARIABLES
    conf,        \* [kind, rev, parallel, cbd, ugd]: constructor and process-wide flags
    done,        \* done[c]: ctx c is done (Err() != nil)
    cause,       \* cause[c]: context.Cause(c), Nil while not cancelled
    deferfuncs,  \* [isnil, fns]: Superchan.deferfuncs
    deferfirst,  \* Superchan.deferfirst (Nil or a hook)
    deferlast,   \* Superchan.deferlast
    ch,          \* [q, closed]: the (inbound) channel
    ch2,         \* [q, closed]: the outbound channel of NewDouble
    notify,      \* signal.Notify on ch: "off" | "on" | "stopped"
    wpc,         \* position of the background worker
    rpc,         \* position inside rundeferred
    rlist,       \* the slice rundeferred ranges over (evaluated once)
    hst,         \* hst[h]: "no" | "spawned" | "running" | "done"
    ran,         \* hooks in the order their execution began
    runs,        \* [started, panics, finished]: rundeferred invocations that passed
                 \* the guard, that panicked at it, and that returned
    tasks,       \* handler invocations, in receive order
    api,         \* [op, panic]: the last panic raised by a public call
    crashed,     \* a goroutine panicked without recover
    cpc, cerr,   \* Cancel callers: position and argument
    wst, wret,   \* Wait callers: position and returned cause
    hist,        \* history: [winner, sets, pushed, raised, got]
    upd,         \* the goroutine calling Updates() / Updates2() on the channel
    srv,         \* the HttpServer built on the Superchan
    prev,        \* what HttpServer.Refresh replaced: the Superchan before it
    reg2,        \* the registry of the outbound Superchan of NewDouble
    buf          \* [size, made, cap]: CHANBUFSIZE; the channel made, its capacity

vars == <<conf, done, cause, deferfuncs, deferfirst, deferlast, ch, ch2, notify, wpc,
          rpc, rlist, hst, ran, runs, tasks, api, crashed, cpc, cerr, wst,
          wret, hist, upd, srv, prev, reg2, buf>>

ctxVars  == <<done, cause>>
regVars  == <<deferfuncs, deferfirst, deferlast>>
chanVars == <<ch, ch2, notify>>
runVars  == <<rpc, rlist, hst, ran, runs>>
callVars == <<cpc, cerr, wst, wret>>
extVars  == <<upd, srv, prev, reg2, buf>>

\* -------------------------------------------------- process-wide settings
CancelBeforeDefer == conf.cbd
UseGoroutineDefer == conf.ugd

\* ------------------------------------------------------------ cancellable
\* context.WithCancelCause(parent): the scopes derived from c.
DescendantsOfParentOnly(c) ==
    IF c = "parent" THEN (IF conf.kind = "Double" THEN {"in", "out"} ELSE {"in"})
    ELSE {}
Descendants(c) ==
    IF c = "parent" THEN (IF conf.kind = "Double" THEN {"in", "out"} ELSE {"in"})
    ELSE IF c = "in" /\ conf.kind = "Double" THEN {"out"}
    ELSE {}

\* The cause a CancelCauseFunc records for its argument.
CauseOfAsGiven(err) == err
CauseOf(err) == IF err = Nil THEN Canceled ELSE err

\* c.cancel(err): first writer wins, done is signalled, children follow.
Hit(c) == IF done[c] THEN {} ELSE {x \in {c} \cup Descendants(c) : ~done[x]}
DoneAfterCancel(c) == [x \in Ctxs |-> done[x] \/ x \in Hit(c)]
CauseAfterCancelLastWins(c, err) ==
    [x \in Ctxs |-> IF x \in {c} \cup Descendants(c) THEN CauseOf(err) ELSE cause[x]]
CauseAfterCancel(c, err) ==
    [x \in Ctxs |-> IF x \in Hit(c) THEN CauseOf(err) ELSE cause[x]]

\* cancellable.Cancel(err) on scope c.
Cancel(c, err) ==
    /\ done'  = DoneAfterCancel(c)
    /\ cause' = CauseAfterCancel(c, err)

\* Superchan.Err() != nil
Err(c) == done[c]

\* -------------------------------------------------------------- Superchan
\* Superchan.IsDead(): s.deferfuncs == nil
IsDead == deferfuncs.isnil

NilFuncs == [isnil |-> TRUE, fns |-> <<>>]
Funcs(fs) == [isnil |-> FALSE, fns |-> fs]

RECURSIVE Reverse(_)
Reverse(s) == IF s = <<>> THEN <<>> ELSE Append(Reverse(Tail(s)), Head(s))

\* Defer's loop: each ff is put in front of the list.
Prepended(fs) == Funcs(Reverse(fs) \o deferfuncs.fns)

\* The guard shared by Defer, DeferFirst and DeferLast: s.Err() != nil.
CannotDeferNever == FALSE
CannotDefer == Err("in")

Range(s) == {s[i] : i \in 1..Len(s)}

\* The funcs that are registered, queued in the runner or were run: Defer is
\* given funcs that are none of these.
Known == Range(deferfuncs.fns) \cup Range(rlist) \cup Range(ran)
         \cup {h \in Hooks : hst[h] # "no"}

\* The arguments Defer is called with: the next one or two funcs not yet
\* known, named in the order of their registration.
IsFresh(h) == h \notin Known
Fresh == SelectSeq(OrderedSeq, IsFresh)
DeferArgs == {SubSeq(Fresh, 1, k) : k \in 1..(IF Len(Fresh) > 2 THEN 2 ELSE Len(Fresh))}

\* Superchan.Defer(f...)
DeferCall(fs) ==
    /\ ~crashed
    /\ fs \in DeferArgs
    /\ IF CannotDefer
       THEN /\ api' = [op |-> "Defer", panic |-> "cannot defer after cancel"]
            /\ UNCHANGED <<regVars, hist>>
       ELSE /\ deferfuncs' = Prepended(fs)
            /\ UNCHANGED <<deferfirst, deferlast, api, hist>>
    /\ UNCHANGED <<conf, extVars, ctxVars, chanVars, wpc, runVars, tasks, crashed, callVars>>

\* Superchan.DeferFirst(f)
DeferFirstCall(f) ==
    /\ ~crashed
    /\ IF CannotDefer
       THEN /\ api' = [op |-> "DeferFirst", panic |-> "cannot defer after cancel"]
            /\ UNCHANGED <<regVars, hist>>
       ELSE IF deferfirst # Nil
       THEN /\ api' = [op |-> "DeferFirst", panic |-> "deferfirst already set"]
            /\ UNCHANGED <<regVars, hist>>
       ELSE /\ deferfirst' = f
            /\ UNCHANGED <<deferfuncs, deferlast, api, hist>>
    /\ UNCHANGED <<conf, extVars, ctxVars, chanVars, wpc, runVars, tasks, crashed, callVars>>

\* Superchan.DeferLast(f)
DeferLastCall(f) ==
    /\ ~crashed
    /\ IF CannotDefer
       THEN /\ api' = [op |-> "DeferLast", panic |-> "cannot defer after cancel"]
            /\ UNCHANGED <<regVars, hist>>
       ELSE IF deferlast # Nil
       THEN /\ api' = [op |-> "DeferLast", panic |-> "deferlast already set"]
            /\ UNCHANGED <<regVars, hist>>
       ELSE /\ deferlast' = f
            /\ UNCHANGED <<deferfuncs, deferfirst, api, hist>>
    /\ UNCHANGED <<conf, extVars, ctxVars, chanVars, wpc, runVars, tasks, crashed, callVars>>

\* Superchan.SetDeferred(f): f is nil, empty or a list of funcs.
SetArgs == {NilFuncs, Funcs(<<>>), Funcs(<<"A">>)}
SetDeferredCall(f) ==
    /\ ~crashed
    /\ hist.sets < MaxSets
    /\ deferfuncs' = f
    /\ hist' = [hist EXCEPT !.sets = @ + 1]
    /\ UNCHANGED <<conf, extVars, ctxVars, deferfirst, deferlast, chanVars, wpc, runVars,
                   tasks, api, crashed, callVars>>

\* Cancel(err) by a caller outside the library.
ExternalCancel(e) ==
    /\ ~crashed
    /\ ~done["in"]
    /\ Cancel("in", e)
    /\ UNCHANGED <<conf, extVars, regVars, chanVars, wpc, runVars, tasks, api, crashed,
                   callVars, hist>>

\* The parent scope is cancelled.
ParentCancel ==
    /\ ~crashed
    /\ ~done["parent"]
    /\ Cancel("parent", PErr)
    /\ UNCHANGED <<conf, extVars, regVars, chanVars, wpc, runVars, tasks, api, crashed,
                   callVars, hist>>

\* ------------------------------------------------------------ rundeferred
Active == {h \in Hooks : hst[h] \in {"spawned", "running"}}

\* caller(fn): a direct call, or wg.Add(1) and a goroutine.
Caller(h) ==
    IF UseGoroutineDefer
    THEN /\ hst' = [hst EXCEPT ![h] = "spawned"]
         /\ ran' = ran
    ELSE /\ hst' = [hst EXCEPT ![h] = "running"]
         /\ ran' = Append(ran, h)

\* The guard of rundeferred: if s.IsDead() { panic("rundeferred called twice") }
RunGuard == IsDead

\* Entering rundeferred; a panic in the worker goroutine ends the process.
RunEnter(byWorker) ==
    IF RunGuard
    THEN /\ rpc' = "panicked"
         /\ runs' = [runs EXCEPT !.panics = @ + 1]
         /\ crashed' = byWorker
         /\ UNCHANGED <<rlist, hst, ran>>
    ELSE /\ rpc' = "first"
         /\ runs' = [runs EXCEPT !.started = @ + 1]
         /\ UNCHANGED <<rlist, hst, ran, crashed>>

\* if s.deferfirst != nil { caller(s.deferfirst) }
RunFirst ==
    /\ ~crashed
    /\ rpc = "first"
    /\ IF deferfirst # Nil THEN Caller(deferfirst) ELSE UNCHANGED <<hst, ran>>
    /\ rpc' = "waitFirst"
    /\ UNCHANGED <<conf, extVars, ctxVars, regVars, chanVars, wpc, rlist, runs, tasks, api,
                   crashed, callVars, hist>>

\* wg.Wait(), then the range expression s.deferfuncs is evaluated.
RunRangeNoBarrier ==
    /\ ~crashed
    /\ rpc = "waitFirst"
    /\ rlist' = deferfuncs.fns
    /\ rpc' = "ordered"
    /\ UNCHANGED <<conf, extVars, ctxVars, regVars, chanVars, wpc, hst, ran, runs, tasks,
                   api, crashed, callVars, hist>>
RunRange ==
    /\ ~crashed
    /\ rpc = "waitFirst"
    /\ Active = {}
    /\ rlist' = deferfuncs.fns
    /\ rpc' = "ordered"
    /\ UNCHANGED <<conf, extVars, ctxVars, regVars, chanVars, wpc, hst, ran, runs, tasks,
                   api, crashed, callVars, hist>>

\* for _, f := range s.deferfuncs { caller(f) }
RunOrdered ==
    /\ ~crashed
    /\ rpc = "ordered"
    /\ rlist # <<>>
    /\ UseGoroutineDefer \/ Active = {}
    /\ hst[Head(rlist)] \notin {"spawned", "running"}
    /\ Caller(Head(rlist))
    /\ rlist' = Tail(rlist)
    /\ UNCHANGED <<conf, extVars, ctxVars, regVars, chanVars, wpc, rpc, runs, tasks, api,
                   crashed, callVars, hist>>

\* wg.Wait(); if s.deferlast != nil { caller(s.deferlast) }
RunLastNoBarrier ==
    /\ ~crashed
    /\ rpc = "ordered"
    /\ rlist = <<>>
    /\ IF deferlast # Nil /\ hst[deferlast] \notin {"spawned", "running"}
       THEN Caller(deferlast) ELSE UNCHANGED <<hst, ran>>
    /\ rpc' = "waitLast"
    /\ UNCHANGED <<conf, extVars, ctxVars, regVars, chanVars, wpc, rlist, runs, tasks, api,
                   crashed, callVars, hist>>
RunLast ==
    /\ ~crashed
    /\ rpc = "ordered"
    /\ rlist = <<>>
    /\ Active = {}
    /\ IF deferlast # Nil THEN Caller(deferlast) ELSE UNCHANGED <<hst, ran>>
    /\ rpc' = "waitLast"
    /\ UNCHANGED <<conf, extVars, ctxVars, regVars, chanVars, wpc, rlist, runs, tasks, api,
                   crashed, callVars, hist>>

\* wg.Wait(); s.deferlast = nil; s.deferfirst = nil; s.deferfuncs = nil
RunClear ==
    /\ ~crashed
    /\ rpc = "waitLast"
    /\ Active = {}
    /\ deferlast' = Nil
    /\ deferfirst' = Nil
    /\ deferfuncs' = NilFuncs
    /\ rpc' = "returned"
    /\ runs' = [runs EXCEPT !.finished = @ + 1]
    /\ UNCHANGED <<conf, extVars, ctxVars, chanVars, wpc, rlist, hst, ran, tasks, api,
                   crashed, callVars, hist>>

\* The goroutine started by caller begins fn().
HookStart(h) ==
    /\ ~crashed
    /\ hst[h] = "spawned"
    /\ hst' = [hst EXCEPT ![h] = "running"]
    /\ ran' = Append(ran, h)
    /\ UNCHANGED <<conf, extVars, ctxVars, regVars, chanVars, wpc, rpc, rlist, runs, tasks,
                   api, crashed, callVars, hist>>

\* fn() returns (and, in a goroutine, wg.Done()).
HookEnd(h) ==
    /\ ~crashed
    /\ hst[h] = "running"
    /\ hst' = [hst EXCEPT ![h] = "done"]
    /\ UNCHANGED <<conf, extVars, ctxVars, regVars, chanVars, wpc, rpc, rlist, ran, runs,
                   tasks, api, crashed, callVars, hist>>

RunnerStep ==
    \/ RunFirst
    \/ RunRange
    \/ RunOrdered
    \/ RunLast
    \/ RunClear
    \/ \E h \in Hooks : HookStart(h)
    \/ \E h \in Hooks : HookEnd(h)

\* ------------------------------------------------------------------- Init
NoTasks == <<>>
NoUpdates == [pc |-> "idle", op |-> "none", l |-> 0, i |-> 0, updates |-> <<>>,
              ret |-> "unset", snap |-> <<>>]
NoServer == [pc |-> "none"]
\* Refresh was not called.
NoRefresh == [refreshes |-> 0, first |-> FALSE, live |-> FALSE, dead |-> FALSE,
              hit |-> FALSE, ret |-> "unset"]
\* The registry NewRaw builds: deferfuncs: []func(){}, no first or last func.
NewRegistry == [deferfuncs |-> [isnil |-> FALSE, fns |-> <<>>], deferfirst |-> "nil",
                deferlast |-> "nil", ran |-> <<>>]
\* var CHANBUFSIZE, and no channel made from it yet.
NoChannel == [size |-> BufSize, made |-> FALSE, cap |-> 0]
InitCore ==
    /\ done = [c \in Ctxs |-> FALSE]
    /\ cause = [c \in Ctxs |-> Nil]
    /\ deferfuncs = [isnil |-> FALSE, fns |-> <<>>]
    /\ deferfirst = Nil
    /\ deferlast = Nil
    /\ ch = [q |-> <<>>, closed |-> FALSE]
    /\ ch2 = [q |-> <<>>, closed |-> FALSE]
    /\ notify = "off"
    /\ rpc = "idle"
    /\ rlist = <<>>
    /\ hst = [h \in Hooks |-> "no"]
    /\ ran = <<>>
    /\ runs = [started |-> 0, panics |-> 0, finished |-> 0]
    /\ tasks = NoTasks
    /\ api = [op |-> "none", panic |-> "none"]
    /\ crashed = FALSE
    /\ wst = [w \in Waiters |-> "idle"]
    /\ wret = [w \in Waiters |-> "unset"]
    /\ hist = [winner |-> 0, sets |-> 0, pushed |-> 0, raised |-> 0, got |-> <<>>]

InitCommon ==
    /\ InitCore
    /\ upd = NoUpdates
    /\ srv = NoServer
    /\ prev = NoRefresh
    /\ reg2 = NewRegistry
    /\ buf = NoChannel

\* ---------------------------------------------- SpecCancel: Cancel / Wait
\* cancellable.New(parent) with NumCallers goroutines calling Cancel(err_i)
\* and NumWaiters goroutines calling Wait().
InitCancel ==
    /\ InitCommon
    /\ conf = [kind |-> "Raw", rev |-> 1, parallel |-> FALSE, cbd |-> TRUE, ugd |-> TRUE]
    /\ wpc = "none"
    /\ cpc = [i \in Callers |-> "ready"]
    /\ cerr \in [Callers -> Errs \cup {Nil}]

CallerCancel(i) ==
    /\ cpc[i] = "ready"
    /\ Cancel("in", cerr[i])
    /\ cpc' = [cpc EXCEPT ![i] = "returned"]
    /\ hist' = [hist EXCEPT !.winner = IF done["in"] THEN @ ELSE i]
    /\ UNCHANGED <<conf, extVars, regVars, chanVars, wpc, runVars, tasks, api, crashed,
                   cerr, wst, wret>>

\* Wait(): <-c.Done() ...
WaitCall(w) ==
    /\ wst[w] = "idle"
    /\ wst' = [wst EXCEPT ![w] = "blocked"]
    /\ UNCHANGED <<conf, extVars, ctxVars, regVars, chanVars, wpc, runVars, tasks, api,
                   crashed, cpc, cerr, wret, hist>>

WaitDone(w) ==
    /\ wst[w] = "blocked"
    /\ done["in"]
    /\ wst' = [wst EXCEPT ![w] = "woken"]
    /\ UNCHANGED <<conf, extVars, ctxVars, regVars, chanVars, wpc, runVars, tasks, api,
                   crashed, cpc, cerr, wret, hist>>

\* ... return context.Cause(c)
WaitReturn(w) ==
    /\ wst[w] = "woken"
    /\ wst' = [wst EXCEPT ![w] = "returned"]
    /\ wret' = [wret EXCEPT ![w] = cause["in"]]
    /\ UNCHANGED <<conf, extVars, ctxVars, regVars, chanVars, wpc, runVars, tasks, api,
                   crashed, cpc, cerr, hist>>

NextCancel ==
    \/ \E i \in Callers : CallerCancel(i)
    \/ \E w \in Waiters : WaitCall(w)
    \/ \E w \in Waiters : WaitDone(w)
    \/ \E w \in Waiters : WaitReturn(w)

SpecCancel == InitCancel /\ [][NextCancel]_vars

\* ------------------------------------------------------------------ C1
\* C1 (as claimed): once some Cancel(err_i) has returned, the cause is one of
\* the err_i that were passed, and every Wait() that returned gave that cause.
C1_Original ==
    (\E i \in Callers : cpc[i] = "returned") =>
        /\ \E i \in Callers : cpc[i] = "returned" /\ cause["in"] = cerr[i]
        /\ \A w \in Waiters : wst[w] = "returned" => wret[w] = cause["in"]

\* C1 (amended): exactly one call wins; the cause is what the CancelCauseFunc
\* records for the winner's argument (err_i, or context.Canceled for a nil
\* err_i), it never changes afterwards, and every Wait() returns it; no Wait()
\* returns before a Cancel.
C1_WinnerState ==
    /\ (hist.winner = 0) <=> ~done["in"]
    /\ ~done["in"] => cause["in"] = Nil
    /\ done["in"] =>
          /\ cpc[hist.winner] = "returned"
          /\ cause["in"] = CauseOf(cerr[hist.winner])
    /\ \A w \in Waiters : wst[w] \in {"woken", "returned"} => done["in"]
    /\ \A w \in Waiters : wst[w] = "returned" => wret[w] = cause["in"]

C1_SingleWriterWins ==
    [][/\ C1_WinnerState'
       /\ done["in"] => (cause'["in"] = cause["in"] /\ hist'.winner = hist.winner)]_vars

\* Every caller has cancelled with pairwise different arguments, a waiter that
\* started before the first Cancel and one that started after have returned.
C1_Witness ==
    /\ \A i \in Callers : cpc[i] = "returned"
    /\ cerr[1] = "E1" /\ cerr[2] = "E2" /\ cerr[3] = Nil
    /\ hist.winner = 2
    /\ \A w \in Waiters : wst[w] = "returned" /\ wret[w] = "E2"

\* ------------------------------------------------ SpecRaw: NewRaw, by hand
\* NewRaw(parent): a Superchan with no worker; one goroutine registers the
\* deferred funcs and invokes rundeferred, others cancel the scope.
InitRaw ==
    /\ InitCommon
    /\ conf \in [kind : {"Raw"}, rev : {1}, parallel : {FALSE}, cbd : {TRUE},
                 ugd : BOOLEAN]
    /\ wpc = "none"
    /\ cpc = [i \in Callers |-> "unused"]
    /\ cerr = [i \in Callers |-> Nil]

\* The constructing goroutine is not inside rundeferred.
DriverFree == rpc \in {"idle", "returned", "panicked"}

\* s.rundeferred() called directly by the constructing goroutine.
RunDeferredCall ==
    /\ ~crashed
    /\ DriverFree
    /\ runs.started + runs.panics < MaxRuns
    /\ RunEnter(FALSE)
    /\ api' = IF RunGuard
              THEN [op |-> "rundeferred", panic |-> "rundeferred called twice"]
              ELSE api
    /\ UNCHANGED <<conf, extVars, ctxVars, regVars, chanVars, wpc, tasks, callVars, hist>>

Registration ==
    \/ \E fs \in DeferArgs : DeferCall(fs)
    \/ DeferFirstCall("F")
    \/ DeferLastCall("L")

NextRaw ==
    \/ DriverFree /\ Registration
    \/ DriverFree /\ \E f \in SetArgs : SetDeferredCall(f)
    \/ ExternalCancel("E1")
    \/ ParentCancel
    \/ RunDeferredCall
    \/ RunnerStep

SpecRaw == InitRaw /\ [][NextRaw]_vars

\* ------------------------------------------------------- worker helpers
\* The registration calls made, by any goroutine, while a worker runs.
WorkerRegistration ==
    \/ \E fs \in DeferArgs :
          /\ Cardinality(Known \cap Ordered) + Len(fs) <= MaxDefer
          /\ DeferCall(fs)
    \/ DeferFirstCall("F")
    \/ DeferLastCall("L")

\* The worker goroutine calls chctx.rundeferred().
WorkerCallsRun(next) ==
    /\ RunEnter(TRUE)
    /\ wpc' = next

\* chctx.rundeferred() has returned to the worker.
RunReturned == rpc = "returned"

\* The handler given to New / NewDouble: it fails for item Z, nulls the
\* slot of item N, replaces item T by T2 in its slot and leaves the other
\* items as they are.
HandlerErr(x) == IF x = "Z" THEN ErrZ ELSE Nil
HandlerOut(x) == IF x = "N" THEN Nil ELSE IF x = "T" THEN "T2" ELSE x

NewTask(x) == [item |-> x, st |-> "spawned", res |-> "none"]
Last(s) == s[Len(s)]

\* A producer sends x on chctx.Ch() (blocks while the buffer is full).
PushItems == IF conf.kind = "Double" THEN {"X", "Z", "N"} ELSE {"X", "Z"}
Push(x) ==
    /\ ~crashed
    /\ wpc # "construct"
    /\ hist.pushed < MaxPush
    /\ ~ch.closed
    /\ Len(ch.q) < ChanCap
    /\ ch' = [ch EXCEPT !.q = Append(@, x)]
    /\ hist' = [hist EXCEPT !.pushed = @ + 1]
    /\ UNCHANGED <<conf, extVars, ctxVars, regVars, ch2, notify, wpc, runVars, tasks, api,
                   crashed, callVars>>

\* ------------------------------------------------------ SpecNew: New(...)
\* for chctx.Err() == nil {
NewLoop ==
    /\ ~crashed
    /\ wpc = "loop"
    /\ wpc' = IF Err("in") THEN "exit" ELSE "select"
    /\ UNCHANGED <<conf, extVars, ctxVars, regVars, chanVars, runVars, tasks, api, crashed,
                   callVars, hist>>

\* case <-chctx.Done(): chctx.rundeferred()
NewSelectDone ==
    /\ ~crashed
    /\ wpc = "select"
    /\ done["in"]
    /\ WorkerCallsRun("inrun")
    /\ UNCHANGED <<conf, extVars, ctxVars, regVars, chanVars, tasks, api, callVars, hist>>

NewAfterRun ==
    /\ ~crashed
    /\ wpc = "inrun"
    /\ RunReturned
    /\ wpc' = "loop"
    /\ UNCHANGED <<conf, extVars, ctxVars, regVars, chanVars, runVars, tasks, api, crashed,
                   callVars, hist>>

\* case in := <-chctx.UpdatesChan(): the handler is called here or in a goroutine.
NewReceive ==
    /\ ~crashed
    /\ wpc = "select"
    /\ ch.q # <<>>
    /\ ch' = [ch EXCEPT !.q = Tail(@)]
    /\ tasks' = Append(tasks, NewTask(Head(ch.q)))
    /\ wpc' = IF conf.parallel THEN "loop" ELSE "handling"
    /\ UNCHANGED <<conf, extVars, ctxVars, regVars, ch2, notify, runVars, api, crashed,
                   callVars, hist>>

\* handler(chctx, in) begins.
HandlerBegin(i) ==
    /\ ~crashed
    /\ tasks[i].st = "spawned"
    /\ tasks' = [tasks EXCEPT ![i].st = "handler"]
    /\ UNCHANGED <<conf, extVars, ctxVars, regVars, chanVars, wpc, runVars, api, crashed,
                   callVars, hist>>

\* if err := handler(chctx, in); err != nil { chctx.Cancel(err) }
HandlerReturn(i) ==
    /\ ~crashed
    /\ conf.kind = "New" \/ conf.rev = 2
    /\ tasks[i].st = "handler"
    /\ tasks' = [tasks EXCEPT ![i].st = "done"]
    /\ IF HandlerErr(tasks[i].item) # Nil
       THEN Cancel("in", HandlerErr(tasks[i].item))
       ELSE UNCHANGED ctxVars
    /\ UNCHANGED <<conf, extVars, regVars, chanVars, wpc, runVars, api, crashed, callVars,
                   hist>>

\* The sequential handler call has returned: back to the loop condition.
NewAfterHandlerNoWait ==
    /\ ~crashed
    /\ wpc = "handling"
    /\ wpc' = "loop"
    /\ UNCHANGED <<conf, extVars, ctxVars, regVars, chanVars, runVars, tasks, api, crashed,
                   callVars, hist>>
NewAfterHandler ==
    /\ ~crashed
    /\ wpc = "handling"
    /\ Last(tasks).st = "done"
    /\ wpc' = "loop"
    /\ UNCHANGED <<conf, extVars, ctxVars, regVars, chanVars, runVars, tasks, api, crashed,
                   callVars, hist>>

InitNew ==
    /\ InitCommon
    /\ conf \in [kind : {"New"}, rev : {1}, parallel : BOOLEAN, cbd : {TRUE},
                 ugd : BOOLEAN]
    /\ wpc = "loop"
    /\ cpc = [i \in Callers |-> "unused"]
    /\ cerr = [i \in Callers |-> Nil]

NextNew ==
    \/ WorkerRegistration
    \/ ExternalCancel("E1")
    \/ ParentCancel
    \/ \E x \in PushItems : Push(x)
    \/ NewLoop
    \/ NewSelectDone
    \/ NewAfterRun
    \/ NewReceive
    \/ \E i \in 1..Len(tasks) : HandlerBegin(i)
    \/ \E i \in 1..Len(tasks) : HandlerReturn(i)
    \/ NewAfterHandler
    \/ RunnerStep

SpecNew == InitNew /\ [][NextNew]_vars

\* ---------------------------------------------- SpecMain: NewMain(...)
\* MakeSignalError(sig)
MakeSignalErrorForgetsSignal(sig) == Canceled
MakeSignalError(sig) == SigErr

\* NewMain: NewRaw, signal.Notify, and the worker unless the context is
\* already done (its parent was cancelled).
MainConstructAlwaysStarts ==
    /\ ~crashed
    /\ wpc = "construct"
    /\ notify' = "on"
    /\ wpc' = "select"
    /\ UNCHANGED <<conf, extVars, ctxVars, regVars, ch, ch2, runVars, tasks, api, crashed,
                   callVars, hist>>
MainConstruct ==
    /\ ~crashed
    /\ wpc = "construct"
    /\ notify' = "on"
    /\ wpc' = IF Err("in") THEN "none" ELSE "select"
    /\ UNCHANGED <<conf, extVars, ctxVars, regVars, ch, ch2, runVars, tasks, api, crashed,
                   callVars, hist>>

\* The signal is raised: package signal sends it to every channel it was told
\* to notify, without blocking (a full buffer loses the signal); the send
\* panics on a channel that was closed while still notified.
RaiseSignal ==
    /\ ~crashed
    /\ wpc # "construct"
    /\ hist.raised < MaxSignals
    /\ hist' = [hist EXCEPT !.raised = @ + 1]
    /\ ch' = IF notify = "on" /\ Len(ch.q) < ChanCap /\ ~ch.closed
             THEN [ch EXCEPT !.q = Append(@, Sig)]
             ELSE ch
    /\ crashed' = (notify = "on" /\ ch.closed)
    /\ UNCHANGED <<conf, extVars, ctxVars, regVars, ch2, notify, wpc, runVars, tasks, api,
                   callVars>>

\* case <-chctx.Done(): chctx.rundeferred()
MainSelectDone ==
    /\ ~crashed
    /\ wpc = "select"
    /\ done["in"]
    /\ WorkerCallsRun("inrun")
    /\ UNCHANGED <<conf, extVars, ctxVars, regVars, chanVars, tasks, api, callVars, hist>>

\* case in := <-chctx.UpdatesChan(): with CancelBeforeDefer the context is
\* cancelled first, without it rundeferred is called first.
MainSignal ==
    /\ ~crashed
    /\ wpc = "select"
    /\ ch.q # <<>>
    /\ ch' = [ch EXCEPT !.q = Tail(@)]
    /\ IF CancelBeforeDefer
       THEN /\ Cancel("in", MakeSignalError(Head(ch.q)))
            /\ wpc' = "sigcancelled"
            /\ UNCHANGED <<runVars, crashed>>
       ELSE /\ WorkerCallsRun("sigrun")
            /\ UNCHANGED ctxVars
    /\ UNCHANGED <<conf, extVars, regVars, ch2, notify, tasks, api, callVars, hist>>

\* CancelBeforeDefer: chctx.Cancel(...) is followed by chctx.rundeferred()
MainRunAfterCancel ==
    /\ ~crashed
    /\ wpc = "sigcancelled"
    /\ WorkerCallsRun("inrun")
    /\ UNCHANGED <<conf, extVars, ctxVars, regVars, chanVars, tasks, api, callVars, hist>>

\* not CancelBeforeDefer: chctx.rundeferred() is followed by chctx.Cancel(...)
MainCancelAfterRun ==
    /\ ~crashed
    /\ wpc = "sigrun"
    /\ RunReturned
    /\ Cancel("in", MakeSignalError(Sig))
    /\ wpc' = "stopping"
    /\ UNCHANGED <<conf, extVars, regVars, chanVars, runVars, tasks, api, crashed, callVars,
                   hist>>

MainAfterRun ==
    /\ ~crashed
    /\ wpc = "inrun"
    /\ RunReturned
    /\ wpc' = "stopping"
    /\ UNCHANGED <<conf, extVars, ctxVars, regVars, chanVars, runVars, tasks, api, crashed,
                   callVars, hist>>

\* The worker's deferred calls: signal.Stop(chctx.Ch()) and, in revision 1,
\* close(chctx.Ch()).
MainStop ==
    /\ ~crashed
    /\ wpc = "stopping"
    /\ notify' = "stopped"
    /\ IF conf.rev = 1
       THEN IF ch.closed
            THEN crashed' = TRUE /\ UNCHANGED ch
            ELSE ch' = [ch EXCEPT !.closed = TRUE] /\ UNCHANGED crashed
       ELSE UNCHANGED <<ch, crashed>>
    /\ wpc' = "exit"
    /\ UNCHANGED <<conf, extVars, ctxVars, regVars, ch2, runVars, tasks, api, callVars, hist>>

InitMain ==
    /\ InitCommon
    /\ conf \in [kind : {"Main"}, rev : {1, 2}, parallel : {FALSE}, cbd : BOOLEAN,
                 ugd : BOOLEAN]
    /\ wpc = "construct"
    /\ cpc = [i \in Callers |-> "unused"]
    /\ cerr = [i \in Callers |-> Nil]

NextMain ==
    \/ MainConstruct
    \/ wpc # "construct" /\ WorkerRegistration
    \/ wpc # "construct" /\ ExternalCancel("E1")
    \/ ParentCancel
    \/ RaiseSignal
    \/ MainSelectDone
    \/ MainSignal
    \/ MainRunAfterCancel
    \/ MainCancelAfterRun
    \/ MainAfterRun
    \/ MainStop
    \/ RunnerStep

SpecMain == InitMain /\ [][NextMain]_vars

\* The goroutines of the worker and of the hooks are scheduled: a step of
\* theirs that stays possible is eventually taken. Callers and signals are
\* under no obligation.
MainGoroutines ==
    \/ MainConstruct
    \/ MainSelectDone
    \/ MainSignal
    \/ MainRunAfterCancel
    \/ MainCancelAfterRun
    \/ MainAfterRun
    \/ MainStop
    \/ RunnerStep

SpecMainFair == SpecMain /\ WF_vars(MainGoroutines)

\* ------------------------------------------ SpecDouble: NewDouble(...)
\* Both revisions: for chctx.Err() == nil { ... }; revision 1 leaves through
\* its deferred close of both channels.
DoubleLoop ==
    /\ ~crashed
    /\ wpc = "loop"
    /\ wpc' = IF ~Err("in") THEN "select"
              ELSE IF conf.rev = 1 THEN "closing" ELSE "exit"
    /\ UNCHANGED <<conf, extVars, ctxVars, regVars, chanVars, runVars, tasks, api, crashed,
                   callVars, hist>>

\* case <-chctx.Done(): chctx.rundeferred(); return
\* revision 1 also: case <-chctx2.Done(): chctx.rundeferred(); return
DoubleSelectDone ==
    /\ ~crashed
    /\ wpc = "select"
    /\ done["in"] \/ (conf.rev = 1 /\ done["out"])
    /\ WorkerCallsRun("inrun")
    /\ UNCHANGED <<conf, extVars, ctxVars, regVars, chanVars, tasks, api, callVars, hist>>

\* A worker that also ran the funcs of chctx2 on its way out.
DoubleAfterRunBoth ==
    /\ ~crashed
    /\ wpc = "inrun"
    /\ RunReturned
    /\ wpc' = IF conf.rev = 1 THEN "closing" ELSE "exit"
    /\ reg2' = [deferfuncs |-> NilFuncs, deferfirst |-> Nil, deferlast |-> Nil,
                ran |-> (IF reg2.deferfirst # Nil THEN <<reg2.deferfirst>> ELSE <<>>)
                        \o reg2.deferfuncs.fns
                        \o (IF reg2.deferlast # Nil THEN <<reg2.deferlast>> ELSE <<>>)]
    /\ UNCHANGED <<conf, upd, srv, prev, buf, ctxVars, regVars, chanVars, runVars, tasks, api,
                   crashed, callVars, hist>>
DoubleAfterRun ==
    /\ ~crashed
    /\ wpc = "inrun"
    /\ RunReturned
    /\ wpc' = IF conf.rev = 1 THEN "closing" ELSE "exit"
    /\ UNCHANGED <<conf, extVars, ctxVars, regVars, chanVars, runVars, tasks, api, crashed,
                   callVars, hist>>

\* Revision 1, deferred: close(chctx.Ch()); close(chctx2.Ch())
DoubleClose ==
    /\ ~crashed
    /\ wpc = "closing"
    /\ IF ch.closed \/ ch2.closed
       THEN crashed' = TRUE /\ UNCHANGED <<ch, ch2>>
       ELSE /\ ch' = [ch EXCEPT !.closed = TRUE]
            /\ ch2' = [ch2 EXCEPT !.closed = TRUE]
            /\ UNCHANGED crashed
    /\ wpc' = "exit"
    /\ UNCHANGED <<conf, extVars, ctxVars, regVars, notify, runVars, tasks, api, callVars,
                   hist>>

\* case in := <-chctx.UpdatesChan(): the item goes to handledoublein
\* (revision 1) or to the handler (revision 2), here or in a goroutine;
\* revision 2 then goes on to its forwarding select without waiting for a
\* handler goroutine.
DoubleReceive ==
    /\ ~crashed
    /\ wpc = "select"
    /\ ch.q # <<>>
    /\ ch' = [ch EXCEPT !.q = Tail(@)]
    /\ tasks' = Append(tasks, NewTask(Head(ch.q)))
    /\ wpc' = IF ~conf.parallel THEN "handling"
              ELSE IF conf.rev = 1 THEN "loop" ELSE "forward"
    /\ UNCHANGED <<conf, extVars, ctxVars, regVars, ch2, notify, runVars, api, crashed,
                   callVars, hist>>

DoubleAfterHandler ==
    /\ ~crashed
    /\ wpc = "handling"
    /\ Last(tasks).st = "done"
    /\ wpc' = IF conf.rev = 1 THEN "loop" ELSE "forward"
    /\ UNCHANGED <<conf, extVars, ctxVars, regVars, chanVars, runVars, tasks, api, crashed,
                   callVars, hist>>

\* handledoublein: if chctx.Err() != nil || chctx2.Err() != nil { return },
\* else the handler is called.
HandleCheck(i) ==
    /\ ~crashed
    /\ conf.rev = 1
    /\ tasks[i].st = "spawned"
    /\ tasks' = IF Err("in") \/ Err("out")
                THEN [tasks EXCEPT ![i].st = "done", ![i].res = "skipped"]
                ELSE [tasks EXCEPT ![i].st = "handler"]
    /\ UNCHANGED <<conf, extVars, ctxVars, regVars, chanVars, wpc, runVars, api, crashed,
                   callVars, hist>>

\* handledoublein: the handler returns; an error cancels chctx, a nil slot
\* ends the call, anything else is offered to chctx2.
HandleReturn(i) ==
    /\ ~crashed
    /\ conf.rev = 1
    /\ tasks[i].st = "handler"
    /\ IF HandlerErr(tasks[i].item) # Nil
       THEN /\ Cancel("in", HandlerErr(tasks[i].item))
            /\ tasks' = [tasks EXCEPT ![i].st = "done", ![i].res = "error"]
       ELSE /\ UNCHANGED ctxVars
            /\ tasks' = IF HandlerOut(tasks[i].item) = Nil
                        THEN [tasks EXCEPT ![i].st = "done", ![i].res = "nulled"]
                        ELSE [tasks EXCEPT ![i].st = "offer"]
    /\ UNCHANGED <<conf, extVars, regVars, chanVars, wpc, runVars, api, crashed, callVars,
                   hist>>

\* handledoublein's select: the Done cases, the send to chctx2 and default.
\* A ready case is chosen at random; default is taken when none is ready. A
\* send on a closed channel is ready and panics.
OfferDone(i) ==
    /\ done["in"] \/ done["out"]
    /\ tasks' = [tasks EXCEPT ![i].st = "done", ![i].res = "cancelled"]
    /\ UNCHANGED <<ch2, crashed>>
SlotValueIsInput(i) == tasks[i].item
SlotValue(i) == HandlerOut(tasks[i].item)
\* An offer that sends and stays at the select, to send again.
OfferSendAgain(i) ==
    /\ ~ch2.closed
    /\ Len(ch2.q) < ChanCap
    /\ ch2' = [ch2 EXCEPT !.q = Append(@, SlotValue(i))]
    /\ tasks' = [tasks EXCEPT ![i].res = "sent"]
    /\ UNCHANGED crashed
OfferSend(i) ==
    IF ch2.closed
    THEN /\ crashed' = TRUE
         /\ tasks' = [tasks EXCEPT ![i].st = "done", ![i].res = "panic"]
         /\ UNCHANGED ch2
    ELSE /\ Len(ch2.q) < ChanCap
         /\ ch2' = [ch2 EXCEPT !.q = Append(@, SlotValue(i))]
         /\ tasks' = [tasks EXCEPT ![i].st = "done", ![i].res = "sent"]
         /\ UNCHANGED crashed
OfferDefault(i) ==
    /\ ~(done["in"] \/ done["out"])
    /\ ~ch2.closed /\ Len(ch2.q) >= ChanCap
    /\ tasks' = [tasks EXCEPT ![i].st = "done", ![i].res = "dropped"]
    /\ UNCHANGED <<ch2, crashed>>

HandleOffer(i) ==
    /\ ~crashed
    /\ conf.rev = 1
    /\ tasks[i].st = "offer"
    /\ OfferDone(i) \/ OfferSend(i) \/ OfferDefault(i)
    /\ UNCHANGED <<conf, extVars, ctxVars, regVars, ch, notify, wpc, runVars, api, callVars,
                   hist>>

\* Revision 2, the worker's second select:
\*   case <-chctx.Done(): chctx.rundeferred(); return
ForwardDone ==
    /\ ~crashed
    /\ wpc = "forward"
    /\ done["in"]
    /\ WorkerCallsRun("inrun")
    /\ UNCHANGED <<conf, extVars, ctxVars, regVars, chanVars, tasks, api, callVars, hist>>

\*   case <-chctx2.Done(): chctx.Cancel(context.Cause(chctx2)); chctx.rundeferred(); return
ForwardDone2 ==
    /\ ~crashed
    /\ wpc = "forward"
    /\ done["out"]
    /\ Cancel("in", cause["out"])
    /\ WorkerCallsRun("inrun")
    /\ UNCHANGED <<conf, extVars, regVars, chanVars, tasks, api, callVars, hist>>

\*   case chctx2.Ch() <- in: (blocks while chctx2's buffer is full)
ForwardSend ==
    /\ ~crashed
    /\ wpc = "forward"
    /\ Len(ch2.q) < ChanCap
    /\ ch2' = [ch2 EXCEPT !.q = Append(@, Last(tasks).item)]
    /\ wpc' = "loop"
    /\ UNCHANGED <<conf, extVars, ctxVars, regVars, ch, notify, runVars, tasks, api, crashed,
                   callVars, hist>>

\* Cancel(err) on the outbound Superchan by a caller outside the library.
ExternalCancel2(e) ==
    /\ ~crashed
    /\ ~done["out"]
    /\ Cancel("out", e)
    /\ UNCHANGED <<conf, extVars, regVars, chanVars, wpc, runVars, tasks, api, crashed,
                   callVars, hist>>

InitDouble ==
    /\ InitCommon
    /\ conf \in [kind : {"Double"}, rev : {1, 2}, parallel : BOOLEAN, cbd : {TRUE},
                 ugd : {TRUE}]
    /\ wpc = "loop"
    /\ cpc = [i \in Callers |-> "unused"]
    /\ cerr = [i \in Callers |-> Nil]

NextDouble ==
    \/ \E fs \in DeferArgs :
          /\ Cardinality(Known \cap Ordered) + Len(fs) <= MaxDefer
          /\ DeferCall(fs)
    \/ ExternalCancel("E1")
    \/ ExternalCancel2("E2")
    \/ \E x \in PushItems : Push(x)
    \/ DoubleLoop
    \/ DoubleSelectDone
    \/ DoubleAfterRun
    \/ DoubleClose
    \/ DoubleReceive
    \/ DoubleAfterHandler
    \/ \E i \in 1..Len(tasks) : HandleCheck(i)
    \/ \E i \in 1..Len(tasks) : HandleReturn(i)
    \/ \E i \in 1..Len(tasks) : HandleOffer(i)
    \/ \E i \in 1..Len(tasks) : HandlerBegin(i) /\ conf.rev = 2
    \/ \E i \in 1..Len(tasks) : HandlerReturn(i)
    \/ ForwardDone
    \/ ForwardDone2
    \/ ForwardSend
    \/ RunnerStep

SpecDouble == InitDouble /\ [][NextDouble]_vars

\* ------------------- SpecOutbound: the registry of NewDouble's second Superchan
\* The funcs the application registers on chctx2, named in the order of
\* their registration.
OutOrdered == <<"A2", "B2", "C2">>

\* chctx2.Defer(f): if s.Err() != nil { panic(...) }; f is put in front.
OutDefer ==
    /\ ~crashed
    /\ Len(reg2.deferfuncs.fns) < MaxDefer
    /\ IF Err("out")
       THEN /\ api' = [op |-> "Defer", panic |-> "cannot defer after cancel"]
            /\ UNCHANGED reg2
       ELSE /\ reg2' = [reg2 EXCEPT !.deferfuncs.fns =
                            <<OutOrdered[Len(reg2.deferfuncs.fns) + 1]>> \o @]
            /\ UNCHANGED api
    /\ UNCHANGED <<conf, upd, srv, prev, buf, ctxVars, regVars, chanVars, wpc, runVars, tasks,
                   crashed, callVars, hist>>

\* chctx2.DeferFirst(f)
OutDeferFirst ==
    /\ ~crashed
    /\ IF Err("out")
       THEN /\ api' = [op |-> "DeferFirst", panic |-> "cannot defer after cancel"]
            /\ UNCHANGED reg2
       ELSE IF reg2.deferfirst # Nil
       THEN /\ api' = [op |-> "DeferFirst", panic |-> "deferfirst already set"]
            /\ UNCHANGED reg2
       ELSE /\ reg2' = [reg2 EXCEPT !.deferfirst = "F2"]
            /\ UNCHANGED api
    /\ UNCHANGED <<conf, upd, srv, prev, buf, ctxVars, regVars, chanVars, wpc, runVars, tasks,
                   crashed, callVars, hist>>

\* chctx2.DeferLast(f)
OutDeferLast ==
    /\ ~crashed
    /\ IF Err("out")
       THEN /\ api' = [op |-> "DeferLast", panic |-> "cannot defer after cancel"]
            /\ UNCHANGED reg2
       ELSE IF reg2.deferlast # Nil
       THEN /\ api' = [op |-> "DeferLast", panic |-> "deferlast already set"]
            /\ UNCHANGED reg2
       ELSE /\ reg2' = [reg2 EXCEPT !.deferlast = "L2"]
            /\ UNCHANGED api
    /\ UNCHANGED <<conf, upd, srv, prev, buf, ctxVars, regVars, chanVars, wpc, runVars, tasks,
                   crashed, callVars, hist>>

\* NewDouble with an application that registers funcs on both Superchans.
InitOutbound == InitDouble

NextOutbound ==
    \/ NextDouble
    \/ OutDefer
    \/ OutDeferFirst
    \/ OutDeferLast

SpecOutbound == InitOutbound /\ [][NextOutbound]_vars

\* ------------------------------- SpecPanic: rundeferred with panicking hooks
\* The goroutine started by caller defers wg.Done() and a recover() that logs
\* the panic; a direct call has neither.
RecoveredNever == FALSE
RecoveredAlways == TRUE
Recovered == UseGoroutineDefer

\* fn() panics. In a goroutine of caller the panic is recovered and wg.Done()
\* still runs; in a direct call it unwinds rundeferred and its caller.
HookPanic(h) ==
    /\ ~crashed
    /\ hst[h] = "running"
    /\ hst' = [hst EXCEPT ![h] = "panicked"]
    /\ crashed' = ~Recovered
    /\ UNCHANGED <<conf, extVars, ctxVars, regVars, chanVars, wpc, rpc, rlist, ran, runs,
                   tasks, api, callVars, hist>>

\* NewRaw(parent); one goroutine registers funcs and then calls rundeferred
\* once; any of the funcs may panic.
InitPanic == InitRaw

NextPanic ==
    \/ DriverFree /\ runs.started = 0 /\ Registration
    \/ ExternalCancel("E1")
    \/ runs.started = 0 /\ RunDeferredCall
    \/ RunnerStep
    \/ \E h \in Hooks : HookPanic(h)

SpecPanic == InitPanic /\ [][NextPanic]_vars

\* The goroutines of rundeferred and of its hooks are scheduled, and every
\* hook ends, by returning or by panicking.
PanicGoroutines == RunnerStep \/ \E h \in Hooks : HookPanic(h)

SpecPanicFair == SpecPanic /\ WF_vars(PanicGoroutines)

\* ------------------------------------- SpecWait: Superchan.Wait() on NewMain
\* Superchan.Wait: err := s.Chan.Wait() is the call modelled by WaitCall,
\* WaitDone and WaitReturn; then t1 := time.Now() and the polling loop.
SuperWaitStart(w) ==
    /\ wst[w] = "returned"
    /\ wst' = [wst EXCEPT ![w] = "poll"]
    /\ UNCHANGED <<conf, extVars, ctxVars, regVars, chanVars, wpc, runVars, tasks, api,
                   crashed, cpc, cerr, wret, hist>>

\* for time.Since(t1) < MaxWaitDuration { if s.IsDead() { return err } ... }
SuperWaitDead(w) ==
    /\ wst[w] = "poll"
    /\ IsDead
    /\ wst' = [wst EXCEPT ![w] = "sawdead"]
    /\ UNCHANGED <<conf, extVars, ctxVars, regVars, chanVars, wpc, runVars, tasks, api,
                   crashed, cpc, cerr, wret, hist>>

\* The loop condition fails: MaxWaitDuration has passed since t1 (how long
\* that is, measured in steps of the other goroutines, is not fixed); the
\* warning is logged and err returned.
SuperWaitTimeoutNever(w) == FALSE /\ UNCHANGED vars
SuperWaitTimeout(w) ==
    /\ wst[w] = "poll"
    /\ wst' = [wst EXCEPT ![w] = "timedout"]
    /\ UNCHANGED <<conf, extVars, ctxVars, regVars, chanVars, wpc, runVars, tasks, api,
                   crashed, cpc, cerr, wret, hist>>

WaiterStep(w) ==
    \/ WaitCall(w)
    \/ WaitDone(w)
    \/ WaitReturn(w)
    \/ SuperWaitStart(w)
    \/ SuperWaitDead(w)
    \/ SuperWaitTimeout(w)

\* NewMain (revision 1, deferred funcs in goroutines) with Defer as the only
\* registration call, and the goroutines that call Wait().
InitWait ==
    /\ InitCommon
    /\ conf \in [kind : {"Main"}, rev : {1}, parallel : {FALSE}, cbd : BOOLEAN,
                 ugd : {TRUE}]
    /\ wpc = "construct"
    /\ cpc = [i \in Callers |-> "unused"]
    /\ cerr = [i \in Callers |-> Nil]

NextWait ==
    \/ MainConstruct
    \/ \E fs \in DeferArgs :
          /\ wpc # "construct"
          /\ Cardinality(Known \cap Ordered) + Len(fs) <= MaxDefer
          /\ DeferCall(fs)
    \/ wpc # "construct" /\ ExternalCancel("E1")
    \/ ParentCancel
    \/ RaiseSignal
    \/ MainSelectDone
    \/ MainSignal
    \/ MainRunAfterCancel
    \/ MainCancelAfterRun
    \/ MainAfterRun
    \/ MainStop
    \/ RunnerStep
    \/ \E w \in Waiters : WaiterStep(w)

SpecWait == InitWait /\ [][NextWait]_vars

\* The worker, the hooks and a goroutine inside Wait() are scheduled, and the
\* clock advances; nobody is obliged to call Cancel, Defer or Wait.
WaiterRuns(w) ==
    \/ WaitDone(w)
    \/ WaitReturn(w)
    \/ SuperWaitStart(w)
    \/ SuperWaitDead(w)
    \/ SuperWaitTimeout(w)

SpecWaitFair ==
    /\ SpecWait
    /\ WF_vars(MainGoroutines)
    /\ \A w \in Waiters : WF_vars(WaiterRuns(w))

\* ------------------------------- SpecTree: NewDouble under a parent scope
\* The pipeline of SpecDouble with a parent scope that can be cancelled too.
InitTree == InitDouble

NextTree ==
    \/ NextDouble
    \/ ParentCancel

SpecTree == InitTree /\ [][NextTree]_vars

\* ------------------------- SpecScope: Cancel calls and parent cancellation
\* The scope of SpecCancel, whose parent can be cancelled as well.
InitScope == InitCancel

NextScope ==
    \/ NextCancel
    \/ ParentCancel

SpecScope == InitScope /\ [][NextScope]_vars

\* ------------------- SpecSlot: NewDouble with a handler that rewrites slots
\* The pipeline of SpecDouble fed, in addition, with the item T that the
\* handler replaces in its slot.
InitSlot == InitDouble

NextSlot ==
    \/ NextDouble
    \/ Push("T")

SpecSlot == InitSlot /\ [][NextSlot]_vars

\* ----------------- SpecOrder: the sequential pipeline with a consumer on chctx2
\* The consumer receives the next value from chctx2.UpdatesChan().
Pull2 ==
    /\ ~crashed
    /\ ch2.q # <<>>
    /\ ch2' = [ch2 EXCEPT !.q = Tail(@)]
    /\ hist' = [hist EXCEPT !.got = Append(@, Head(ch2.q))]
    /\ UNCHANGED <<conf, extVars, ctxVars, regVars, ch, notify, wpc, runVars, tasks, api,
                   crashed, callVars>>

InitOrder == InitDouble /\ ~conf.parallel

NextOrder ==
    \/ NextSlot
    \/ Pull2

SpecOrder == InitOrder /\ [][NextOrder]_vars

\* ------------------------------------ SpecBuild: the four constructors
\* NewRaw returns the Superchan and starts nothing.
BuildRaw ==
    /\ conf.kind = "Raw"
    /\ wpc = "construct"
    /\ wpc' = "none"
    /\ UNCHANGED <<conf, extVars, ctxVars, regVars, chanVars, runVars, tasks, api, crashed,
                   callVars, hist>>

\* New and NewDouble: chctx := NewRaw(parent) (and chctx2), then go func() {...}()
BuildLoop ==
    /\ conf.kind \in {"New", "Double"}
    /\ wpc = "construct"
    /\ wpc' = "loop"
    /\ UNCHANGED <<conf, extVars, ctxVars, regVars, chanVars, runVars, tasks, api, crashed,
                   callVars, hist>>

\* The constructor is called, under a parent that is live or already
\* cancelled; afterwards the scope may be cancelled and the worker, if any,
\* takes the steps it can take with no item, signal or deferred func around.
InitBuild ==
    /\ InitCommon
    /\ conf \in [kind : {"Raw", "New", "Main", "Double"}, rev : {1, 2},
                 parallel : {FALSE}, cbd : {TRUE}, ugd : {FALSE}]
    /\ wpc = "construct"
    /\ cpc = [i \in Callers |-> "unused"]
    /\ cerr = [i \in Callers |-> Nil]

NextBuild ==
    \/ BuildRaw
    \/ BuildLoop
    \/ conf.kind = "Main" /\ MainConstruct
    \/ ParentCancel
    \/ wpc # "construct" /\ ExternalCancel("E1")
    \/ conf.kind = "New" /\ (NewLoop \/ NewSelectDone \/ NewAfterRun)
    \/ conf.kind = "Main" /\ (MainSelectDone \/ MainAfterRun \/ MainStop)
    \/ conf.kind = "Double" /\
          (DoubleLoop \/ DoubleSelectDone \/ DoubleAfterRun \/ DoubleClose)
    \/ RunFirst
    \/ RunRange
    \/ RunLast
    \/ RunClear

SpecBuild == InitBuild /\ [][NextBuild]_vars

\* ------------------------- SpecDrain: cancellable.Chan, Updates / Updates2
\* The zero value of T, received from a closed and drained channel.
Zero == "zero"
NilSlice == [isnil |-> TRUE, items |-> <<>>]
Slice(items) == [isnil |-> FALSE, items |-> items]

\* A receive from c.ch can proceed: an item is buffered, or the channel is
\* closed (then the zero value is received at once).
CanReceive == ch.q # <<>> \/ ch.closed
Received == IF ch.q # <<>> THEN Head(ch.q) ELSE Zero
AfterReceive == IF ch.q # <<>> THEN [ch EXCEPT !.q = Tail(@)] ELSE ch

\* The sender: c.Ch() <- x, only while no Updates / Updates2 call is under way.
Send(x) ==
    /\ upd.pc \in {"idle", "returned"}
    /\ ~ch.closed
    /\ Len(ch.q) < BufSize
    /\ ch' = [ch EXCEPT !.q = Append(@, x)]
    /\ UNCHANGED <<conf, ctxVars, regVars, ch2, notify, wpc, runVars, tasks, api,
                   crashed, callVars, hist, extVars>>

\* CloseChan() called by goroutine i: close(c.ch); closing a closed channel
\* panics.
CloseChanIdempotent(i) ==
    /\ ~crashed
    /\ cpc[i] = "ready"
    /\ cpc' = [cpc EXCEPT ![i] = "returned"]
    /\ ch' = [ch EXCEPT !.closed = TRUE]
    /\ UNCHANGED <<conf, ctxVars, regVars, ch2, notify, wpc, runVars, tasks, crashed,
                   api, cerr, wst, wret, hist, extVars>>
CloseChanCall(i) ==
    /\ ~crashed
    /\ cpc[i] = "ready"
    /\ IF ch.closed
       THEN /\ api' = [op |-> "CloseChan", panic |-> "close of closed channel"]
            /\ cpc' = [cpc EXCEPT ![i] = "panicked"]
            /\ UNCHANGED ch
       ELSE /\ ch' = [ch EXCEPT !.closed = TRUE]
            /\ cpc' = [cpc EXCEPT ![i] = "returned"]
            /\ UNCHANGED api
    /\ UNCHANGED <<conf, ctxVars, regVars, ch2, notify, wpc, runVars, tasks, crashed,
                   cerr, wst, wret, hist, extVars>>

\* Updates(): l := len(c.ch); updates := make([]T, l)
UpdatesCall ==
    /\ upd.pc \in {"idle", "returned"}
    /\ upd' = [pc |-> "loop", op |-> "Updates", l |-> Len(ch.q), i |-> 0,
               updates |-> Slice([k \in 1..Len(ch.q) |-> Zero]), ret |-> "unset",
               snap |-> ch.q]
    /\ UNCHANGED <<conf, ctxVars, regVars, chanVars, wpc, runVars, tasks, api,
                   crashed, callVars, hist, srv, prev, reg2, buf>>

\* for i := 0; i < l; i++ { u := <-c.ch; updates[i] = u }
UpdatesReceive ==
    /\ upd.pc = "loop" /\ upd.op = "Updates"
    /\ upd.i < upd.l
    /\ CanReceive
    /\ upd' = [upd EXCEPT !.updates.items[upd.i + 1] = Received, !.i = @ + 1]
    /\ ch' = AfterReceive
    /\ UNCHANGED <<conf, ctxVars, regVars, ch2, notify, wpc, runVars, tasks, api,
                   crashed, callVars, hist, srv, prev, reg2, buf>>

\* return updates
UpdatesReturn ==
    /\ upd.pc = "loop" /\ upd.op = "Updates"
    /\ upd.i = upd.l
    /\ upd' = [upd EXCEPT !.pc = "returned", !.ret = upd.updates]
    /\ UNCHANGED <<conf, ctxVars, regVars, chanVars, wpc, runVars, tasks, api,
                   crashed, callVars, hist, srv, prev, reg2, buf>>

\* Updates2(): var updates []T
Updates2Call ==
    /\ upd.pc \in {"idle", "returned"}
    /\ upd' = [pc |-> "loop", op |-> "Updates2", l |-> 0, i |-> 0,
               updates |-> NilSlice, ret |-> "unset", snap |-> ch.q]
    /\ UNCHANGED <<conf, ctxVars, regVars, chanVars, wpc, runVars, tasks, api,
                   crashed, callVars, hist, srv, prev, reg2, buf>>

\* select { case u := <-c.ch: updates = append(updates, u) ... }: on a closed
\* channel this case is always ready; the call is followed for MaxSpin zero
\* values.
Updates2Receive ==
    /\ upd.pc = "loop" /\ upd.op = "Updates2"
    /\ CanReceive
    /\ ch.q = <<>> => upd.i < MaxSpin
    /\ upd' = [upd EXCEPT !.updates = Slice(Append(@.items, Received)),
                          !.i = IF ch.q = <<>> THEN @ + 1 ELSE @]
    /\ ch' = AfterReceive
    /\ UNCHANGED <<conf, ctxVars, regVars, ch2, notify, wpc, runVars, tasks, api,
                   crashed, callVars, hist, srv, prev, reg2, buf>>

\* default: if len(updates) == 0 { return nil }; return updates
Updates2Default ==
    /\ upd.pc = "loop" /\ upd.op = "Updates2"
    /\ ~CanReceive
    /\ upd' = [upd EXCEPT !.pc = "returned",
                          !.ret = IF Len(upd.updates.items) = 0 THEN NilSlice
                                  ELSE upd.updates]
    /\ UNCHANGED <<conf, ctxVars, regVars, chanVars, wpc, runVars, tasks, api,
                   crashed, callVars, hist, srv, prev, reg2, buf>>

\* The single consumer inside a call.
ConsumerStep ==
    \/ UpdatesReceive
    \/ UpdatesReturn
    \/ Updates2Receive
    \/ Updates2Default

\* cancellable.NewChan(parent) with one sender, one consumer and the callers
\* of Cancel and CloseChan.
InitDrain ==
    /\ InitCommon
    /\ conf = [kind |-> "Raw", rev |-> 1, parallel |-> FALSE, cbd |-> TRUE, ugd |-> TRUE]
    /\ wpc = "none"
    /\ cpc = [i \in Callers |-> IF i = 1 THEN "ready" ELSE "unused"]
    /\ cerr = [i \in Callers |-> Nil]

NextDrain ==
    \/ \E x \in {"X", "Y"} : Send(x)
    \/ CloseChanCall(1)
    \/ ExternalCancel("E1")
    \/ UpdatesCall
    \/ Updates2Call
    \/ ConsumerStep

SpecDrain == InitDrain /\ [][NextDrain]_vars

\* The consumer goroutine is scheduled.
SpecDrainFair == SpecDrain /\ WF_vars(ConsumerStep)

\* ------------------------------- SpecSize: SetChanSize and the channel made
\* The values CHANBUFSIZE is set to.
Sizes == 0..(BufSize + 1)

\* SetChanSize(size): cancellable.CHANBUFSIZE = size
SetChanSize(n) ==
    /\ buf' = [buf EXCEPT !.size = n]
    /\ UNCHANGED <<conf, upd, srv, prev, reg2, ctxVars, regVars, chanVars, wpc, runVars,
                   tasks, api, crashed, callVars, hist>>

\* WrapChan(parent, cancelfunc, ch): if ch == nil { ch = make(chan T,
\* CHANBUFSIZE) }; a channel that is given (capacity n) is kept as it is.
WrapChan(given, n) ==
    /\ ~buf.made
    /\ buf' = [buf EXCEPT !.made = TRUE, !.cap = IF given THEN n ELSE buf.size]
    /\ UNCHANGED <<conf, upd, srv, prev, reg2, ctxVars, regVars, chanVars, wpc, runVars,
                   tasks, api, crashed, callVars, hist>>

\* cap(c.ch)
CapacityIsChanBufSize == buf.size
Capacity == buf.cap

\* c.Ch() <- x: the send goes through while the buffer has room (with
\* capacity 0 it waits for a receiver and nothing is queued).
SizedSend(x) ==
    /\ buf.made
    /\ ~ch.closed
    /\ Len(ch.q) < Capacity
    /\ ch' = [ch EXCEPT !.q = Append(@, x)]
    /\ UNCHANGED <<conf, extVars, ctxVars, regVars, ch2, notify, wpc, runVars, tasks, api,
                   crashed, callVars, hist>>

\* <-c.UpdatesChan()
SizedReceive ==
    /\ buf.made
    /\ ch.q # <<>>
    /\ ch' = [ch EXCEPT !.q = Tail(@)]
    /\ UNCHANGED <<conf, extVars, ctxVars, regVars, ch2, notify, wpc, runVars, tasks, api,
                   crashed, callVars, hist>>

InitSize == InitDrain

NextSize ==
    \/ \E n \in Sizes : SetChanSize(n)
    \/ \E given \in BOOLEAN, n \in Sizes : WrapChan(given, n)
    \/ \E x \in {"X", "Y"} : SizedSend(x)
    \/ SizedReceive

SpecSize == InitSize /\ [][NextSize]_vars

\* ------------------------- SpecClose: CloseChan on the channel of NewMain
\* NewMain with callers of CloseChan and Cancel next to the worker, whose
\* revision 1 closes the channel itself when it leaves; no func is deferred.
InitClose ==
    /\ InitCommon
    /\ conf \in [kind : {"Main"}, rev : {1, 2}, parallel : {FALSE}, cbd : BOOLEAN,
                 ugd : {FALSE}]
    /\ wpc = "construct"
    /\ cpc = [i \in Callers |-> "ready"]
    /\ cerr = [i \in Callers |-> Nil]

NextClose ==
    \/ MainConstruct
    \/ wpc # "construct" /\ ExternalCancel("E1")
    \/ ParentCancel
    \/ RaiseSignal
    \/ MainSelectDone
    \/ MainSignal
    \/ MainRunAfterCancel
    \/ MainCancelAfterRun
    \/ MainAfterRun
    \/ MainStop
    \/ RunFirst
    \/ RunRange
    \/ RunLast
    \/ RunClear
    \/ \E i \in Callers : wpc # "construct" /\ CloseChanCall(i)

SpecClose == InitClose /\ [][NextClose]_vars

\* ---------------------------- SpecMisuse: constructors called with bad args
\* conf carries the arguments here: nsignals = len(signals), handler (Nil or
\* a func).
NoSignals == conf.nsignals = 0
NoHandler == conf.handler = Nil

\* panic(...) at the top of a constructor: nothing was built.
ConstructPanic(op, msg) ==
    /\ api' = [op |-> op, panic |-> msg]
    /\ wpc' = "unbuilt"
    /\ UNCHANGED <<conf, extVars, ctxVars, regVars, chanVars, runVars, tasks, crashed,
                   callVars, hist>>

\* NewMain: if len(signals) == 0 { panic(...) }, then the construction.
NewMainNotifiesFirst ==
    /\ conf.kind = "Main"
    /\ wpc = "construct"
    /\ IF NoSignals
       THEN /\ api' = [op |-> "NewMain", panic |-> "superchan: no signals provided"]
            /\ wpc' = "unbuilt"
            /\ notify' = "on"
            /\ UNCHANGED <<conf, extVars, ctxVars, regVars, ch, ch2, runVars, tasks,
                           crashed, callVars, hist>>
       ELSE MainConstruct
NewMainCall ==
    /\ conf.kind = "Main"
    /\ wpc = "construct"
    /\ IF NoSignals
       THEN ConstructPanic("NewMain", "superchan: no signals provided")
       ELSE MainConstruct

\* New / NewDouble: if handler == nil { panic(...) }, then the construction.
NewCall ==
    /\ conf.kind \in {"New", "Double"}
    /\ wpc = "construct"
    /\ IF NoHandler
       THEN ConstructPanic(IF conf.kind = "New" THEN "New" ELSE "NewDouble",
                           "superchan: no handler provided")
       ELSE BuildLoop

\* A Superchan was returned by the constructor.
Built == wpc \notin {"construct", "unbuilt"}

InitMisuse ==
    /\ InitCommon
    /\ conf \in [kind : {"New", "Main", "Double"}, rev : {1, 2}, parallel : {FALSE},
                 cbd : {TRUE}, ugd : {FALSE}, nsignals : {0, 1}, handler : {Nil, "h"}]
    /\ wpc = "construct"
    /\ cpc = [i \in Callers |-> "unused"]
    /\ cerr = [i \in Callers |-> Nil]

NextMisuse ==
    \/ NewMainCall
    \/ NewCall
    \/ ParentCancel
    \/ Built /\ ExternalCancel("E1")
    \/ RaiseSignal
    \/ conf.kind = "New" /\ (NewLoop \/ NewSelectDone \/ NewAfterRun)
    \/ conf.kind = "Main" /\
          (MainSelectDone \/ MainSignal \/ MainRunAfterCancel \/ MainAfterRun \/ MainStop)
    \/ conf.kind = "Double" /\
          (DoubleLoop \/ DoubleSelectDone \/ DoubleAfterRun \/ DoubleClose)
    \/ RunFirst
    \/ RunRange
    \/ RunLast
    \/ RunClear

SpecMisuse == InitMisuse /\ [][NextMisuse]_vars

\* ----------------------------- SpecHttp: HttpServer on a NewMain Superchan
\* The source holds two revisions of package httpserver; conf.hrev selects
\* the one modelled (1: the one whose Refresh returns nothing, 2: the one
\* with shutdownfunc1 / shutdownfunc). conf.ocb is OneClosesBoth and
\* conf.https tells whether ListenAndServeAll is given an https address.
OneClosesBoth == conf.ocb
Listeners == {"http", "https"}
ErrAlready == "httpserver: already cancelled"
ListenerDied(k) == IF k = "http" THEN "http listener died" ELSE "https listener died"

\* HttpServer after New: the server is built, ListenAndServeAll not called.
\*   pc, ret  position of the goroutine in ListenAndServeAll, returned error
\*   wg       the WaitGroup of listenAndServe
\*   lis      the goroutines of serveHttp / serveHttps
\*   shut     ShutdownServer was called on the server (IdleTimeout == 123123)
\*   u1, uL   shutdownfunc1 and shutdownfunc were called
\*   failed   a listener returned from ListenAndServe without a shutdown
NewServer == [pc |-> "idle", ret |-> "unset", wg |-> 0,
              lis |-> [k \in Listeners |-> "off"],
              shut |-> FALSE, u1 |-> FALSE, uL |-> FALSE, failed |-> FALSE]

\* ListenAndServeAll: if s.Err() != nil { return fmt.Errorf(...) }; the
\* arguments are valid.
LasaCall ==
    /\ ~crashed
    /\ wpc # "construct"
    /\ srv.pc = "idle"
    /\ srv' = IF Err("in")
              THEN [srv EXCEPT !.pc = "returned", !.ret = ErrAlready]
              ELSE [srv EXCEPT !.pc = "deferfirst"]
    /\ UNCHANGED <<conf, upd, reg2, buf, prev, ctxVars, regVars, chanVars, wpc, runVars, tasks, api,
                   crashed, callVars, hist>>

\* listenAndServe: wg.Add(1); s.Superchan.DeferFirst(func() {...})
LasaDeferFirst ==
    /\ ~crashed
    /\ srv.pc = "deferfirst"
    /\ IF CannotDefer
       THEN /\ api' = [op |-> "DeferFirst", panic |-> "cannot defer after cancel"]
            /\ srv' = [srv EXCEPT !.pc = "panicked", !.wg = 1]
            /\ UNCHANGED regVars
       ELSE IF deferfirst # Nil
       THEN /\ api' = [op |-> "DeferFirst", panic |-> "deferfirst already set"]
            /\ srv' = [srv EXCEPT !.pc = "panicked", !.wg = 1]
            /\ UNCHANGED regVars
       ELSE /\ deferfirst' = "F"
            /\ srv' = [srv EXCEPT !.pc = "deferlast", !.wg = 1]
            /\ UNCHANGED <<deferfuncs, deferlast, api>>
    /\ UNCHANGED <<conf, upd, reg2, buf, prev, ctxVars, chanVars, wpc, runVars, tasks, crashed,
                   callVars, hist>>

\* s.Superchan.DeferLast(func() {...; wg.Done()})
LasaDeferLast ==
    /\ ~crashed
    /\ srv.pc = "deferlast"
    /\ IF CannotDefer
       THEN /\ api' = [op |-> "DeferLast", panic |-> "cannot defer after cancel"]
            /\ srv' = [srv EXCEPT !.pc = "panicked"]
            /\ UNCHANGED regVars
       ELSE IF deferlast # Nil
       THEN /\ api' = [op |-> "DeferLast", panic |-> "deferlast already set"]
            /\ srv' = [srv EXCEPT !.pc = "panicked"]
            /\ UNCHANGED regVars
       ELSE /\ deferlast' = "L"
            /\ srv' = [srv EXCEPT !.pc = "https"]
            /\ UNCHANGED <<deferfuncs, deferfirst, api>>
    /\ UNCHANGED <<conf, upd, reg2, buf, prev, ctxVars, chanVars, wpc, runVars, tasks, crashed,
                   callVars, hist>>

\* if key != "" && ... { wg.Add(1); go s.serveHttps(...); time.Sleep(...) }
LasaHttps ==
    /\ ~crashed
    /\ srv.pc = "https"
    /\ srv' = IF conf.https
              THEN [srv EXCEPT !.pc = "http", !.wg = @ + 1, !.lis["https"] = "serving"]
              ELSE [srv EXCEPT !.pc = "http"]
    /\ UNCHANGED <<conf, upd, reg2, buf, prev, ctxVars, regVars, chanVars, wpc, runVars, tasks, api,
                   crashed, callVars, hist>>

\* if httpAddr != "" { wg.Add(1); go s.serveHttp(httpAddr, wg.Done) }
LasaHttp ==
    /\ ~crashed
    /\ srv.pc = "http"
    /\ srv' = [srv EXCEPT !.pc = "wait", !.wg = @ + 1, !.lis["http"] = "serving"]
    /\ UNCHANGED <<conf, upd, reg2, buf, prev, ctxVars, regVars, chanVars, wpc, runVars, tasks, api,
                   crashed, callVars, hist>>

\* wg.Wait() returns, listenAndServe returns.
LasaWait ==
    /\ ~crashed
    /\ srv.pc = "wait"
    /\ srv.wg = 0
    /\ srv' = [srv EXCEPT !.pc = "cause"]
    /\ UNCHANGED <<conf, upd, reg2, buf, prev, ctxVars, regVars, chanVars, wpc, runVars, tasks, api,
                   crashed, callVars, hist>>

\* return context.Cause(s)
LasaReturn ==
    /\ ~crashed
    /\ srv.pc = "cause"
    /\ srv' = [srv EXCEPT !.pc = "returned", !.ret = cause["in"]]
    /\ UNCHANGED <<conf, upd, reg2, buf, prev, ctxVars, regVars, chanVars, wpc, runVars, tasks, api,
                   crashed, callVars, hist>>

\* The goroutine in ListenAndServeAll.
LasaStep ==
    \/ LasaDeferFirst
    \/ LasaDeferLast
    \/ LasaHttps
    \/ LasaHttp
    \/ LasaWait
    \/ LasaReturn

\* s.Server.ListenAndServe() returns http.ErrServerClosed: the server was
\* shut down, before or after the listener began to serve.
ListenerClosed(k) ==
    /\ ~crashed
    /\ srv.lis[k] = "serving"
    /\ srv.shut
    /\ srv' = [srv EXCEPT !.lis[k] = "stopped"]
    /\ UNCHANGED <<conf, upd, reg2, buf, prev, ctxVars, regVars, chanVars, wpc, runVars, tasks, api,
                   crashed, callVars, hist>>

\* s.Server.ListenAndServe() returns another error (the address cannot be
\* bound, the listener breaks).
ListenerFails(k) ==
    /\ ~crashed
    /\ srv.lis[k] = "serving"
    /\ ~srv.shut
    /\ srv' = [srv EXCEPT !.lis[k] = "stopped", !.failed = TRUE]
    /\ UNCHANGED <<conf, upd, reg2, buf, prev, ctxVars, regVars, chanVars, wpc, runVars, tasks, api,
                   crashed, callVars, hist>>

\* serveHttp / serveHttps return and their deferred calls run, last deferred
\* first. Revision 2: defer deferfunc(); if OneClosesBoth { defer s.Cancel(..) }
\* Revision 1: if OneClosesBoth { defer deferfunc() }; defer s.Cancel(..)
ListenerCancels == conf.hrev = 1 \/ OneClosesBoth
ListenerDone == conf.hrev = 2 \/ OneClosesBoth
ListenerExit(k) ==
    /\ ~crashed
    /\ srv.lis[k] = "stopped"
    /\ IF ListenerCancels THEN Cancel("in", ListenerDied(k)) ELSE UNCHANGED ctxVars
    /\ srv' = [srv EXCEPT !.lis[k] = "exited",
                          !.wg = IF ListenerDone THEN @ - 1 ELSE @]
    /\ UNCHANGED <<conf, upd, reg2, buf, prev, regVars, chanVars, wpc, runVars, tasks, api, crashed,
                   callVars, hist>>

\* ShutdownServer: if server.IdleTimeout == 123123 { panic(...) }
AlreadyShutdown == srv.shut

\* A deferred func returns (or panics). The func registered by DeferFirst
\* calls shutdownfunc1 (revision 2) and s.shutdown(); the one registered by
\* DeferLast calls shutdownfunc (revision 2) and wg.Done().
HttpHookEnd(h) ==
    /\ ~crashed
    /\ hst[h] = "running"
    /\ IF h = "F"
       THEN IF AlreadyShutdown
            THEN /\ hst' = [hst EXCEPT ![h] = "panicked"]
                 /\ crashed' = ~Recovered
                 /\ srv' = [srv EXCEPT !.u1 = (conf.hrev = 2)]
            ELSE /\ hst' = [hst EXCEPT ![h] = "done"]
                 /\ srv' = [srv EXCEPT !.u1 = (conf.hrev = 2), !.shut = TRUE]
                 /\ UNCHANGED crashed
       ELSE IF h = "L"
       THEN /\ hst' = [hst EXCEPT ![h] = "done"]
            /\ srv' = [srv EXCEPT !.uL = (conf.hrev = 2), !.wg = @ - 1]
            /\ UNCHANGED crashed
       ELSE /\ hst' = [hst EXCEPT ![h] = "done"]
            /\ UNCHANGED <<srv, crashed>>
    /\ UNCHANGED <<conf, upd, reg2, buf, prev, ctxVars, regVars, chanVars, wpc, rpc, rlist, ran, runs,
                   tasks, api, callVars, hist>>

\* httpserver.New(ctx, routes, signals...) followed by Defer calls of the
\* application, one ListenAndServeAll call, signals and Cancel calls.
InitHttp ==
    /\ InitCore
    /\ upd = NoUpdates
    /\ srv = NewServer
    /\ prev = NoRefresh
    /\ reg2 = NewRegistry
    /\ buf = NoChannel
    /\ conf \in [kind : {"Main"}, rev : {1}, parallel : {FALSE}, cbd : BOOLEAN,
                 ugd : BOOLEAN, hrev : {1, 2}, ocb : BOOLEAN, https : BOOLEAN]
    /\ wpc = "construct"
    /\ cpc = [i \in Callers |-> "unused"]
    /\ cerr = [i \in Callers |-> Nil]

NextHttp ==
    \/ MainConstruct
    \/ \E fs \in DeferArgs :
          /\ wpc # "construct"
          /\ Cardinality(Known \cap Ordered) + Len(fs) <= MaxDefer
          /\ DeferCall(fs)
    \/ wpc # "construct" /\ ExternalCancel("E1")
    \/ ParentCancel
    \/ RaiseSignal
    \/ MainSelectDone
    \/ MainSignal
    \/ MainRunAfterCancel
    \/ MainCancelAfterRun
    \/ MainAfterRun
    \/ MainStop
    \/ RunFirst
    \/ RunRange
    \/ RunOrdered
    \/ RunLast
    \/ RunClear
    \/ \E h \in Hooks : HookStart(h)
    \/ \E h \in Hooks : HttpHookEnd(h)
    \/ LasaCall
    \/ LasaStep
    \/ \E k \in Listeners : ListenerClosed(k)
    \/ \E k \in Listeners : ListenerFails(k)
    \/ \E k \in Listeners : ListenerExit(k)

SpecHttp == InitHttp /\ [][NextHttp]_vars

\* The worker, the runner and its hooks, the listeners and the goroutine
\* inside ListenAndServeAll are scheduled; nobody is obliged to call
\* anything, no signal has to arrive and no listener has to fail.
HttpGoroutines ==
    \/ MainConstruct
    \/ MainSelectDone
    \/ MainSignal
    \/ MainRunAfterCancel
    \/ MainCancelAfterRun
    \/ MainAfterRun
    \/ MainStop
    \/ RunFirst
    \/ RunRange
    \/ RunOrdered
    \/ RunLast
    \/ RunClear
    \/ \E h \in Hooks : HookStart(h)
    \/ \E h \in Hooks : HttpHookEnd(h)
    \/ LasaStep
    \/ \E k \in Listeners : ListenerClosed(k)
    \/ \E k \in Listeners : ListenerExit(k)

SpecHttpFair == SpecHttp /\ WF_vars(HttpGoroutines)

\* ------------------------------------------- SpecRefresh: HttpServer.Refresh
\* errors.Wrap(err, "refresh") of the error refreshfunc returned.
RefreshErr == "refresh: err"

\* The func registered by DeferFirst on the current Superchan has not finished:
\* the runner has yet to begin, or the func was begun and has not returned.
FirstPending ==
    /\ deferfirst = "F"
    /\ \/ hst["F"] \in {"spawned", "running"}
       \/ hst["F"] = "no" /\ runs.started = 0 /\ wpc # "none"

\* The worker of the current Superchan has rundeferred still to finish.
RunnerPending == ~IsDead /\ wpc # "none"

\* refreshfunc (revision 2 only) returns an error.
RefreshFails(rf) == conf.hrev = 2 /\ rf = "err"

\* The scopes the Cancel of a failed refreshfunc reaches.
RefreshHit(nc, rf) ==
    IF RefreshFails(rf) /\ ~nc THEN {"in"} \cup Descendants("in") ELSE {}

\* Refresh(newmainctx): panics while s.Err() == nil; else s.Superchan =
\* superchan.NewMain(newmainctx, s.signalshandled...), s.Server =
\* buildserver(...) with the customizations of the old server and the
\* IdleTimeout of a new one, then refreshfunc (revision 2), whose error is
\* passed to Cancel and returned. nc: newmainctx is cancelled already.
RefreshCall(nc, rf) ==
    /\ ~crashed
    /\ wpc # "construct"
    /\ prev.refreshes < MaxRefresh
    /\ IF ~Err("in")
       THEN /\ api' = [op |-> "Refresh", panic |-> "httpserver: cannot refresh, no error"]
            /\ UNCHANGED <<ctxVars, regVars, chanVars, wpc, runVars, tasks, srv, prev>>
       ELSE /\ prev' = [refreshes |-> prev.refreshes + 1,
                        first |-> FirstPending,
                        live |-> RunnerPending,
                        dead |-> IsDead,
                        hit |-> FALSE,
                        ret |-> IF RefreshFails(rf) THEN "err" ELSE Nil]
            /\ done' = [x \in Ctxs |-> nc \/ x \in RefreshHit(nc, rf)]
            /\ cause' = [x \in Ctxs |-> IF nc THEN PErr
                                        ELSE IF x \in RefreshHit(nc, rf) THEN RefreshErr
                                        ELSE Nil]
            /\ deferfuncs' = Funcs(<<>>)
            /\ deferfirst' = Nil
            /\ deferlast' = Nil
            /\ ch' = [q |-> <<>>, closed |-> FALSE]
            /\ notify' = "on"
            /\ wpc' = IF nc THEN "none" ELSE "select"
            /\ rpc' = "idle"
            /\ rlist' = <<>>
            /\ hst' = [h \in Hooks |-> "no"]
            /\ ran' = <<>>
            /\ runs' = [started |-> 0, panics |-> 0, finished |-> 0]
            /\ tasks' = NoTasks
            /\ srv' = NewServer
            /\ UNCHANGED <<ch2, api>>
    /\ UNCHANGED <<conf, upd, reg2, buf, crashed, callVars, hist>>

\* The runner of the replaced Superchan runs the func ListenAndServeAll gave
\* to DeferFirst: shutdownfunc1 and s.shutdown(), which reads s.Server while
\* or after Refresh wrote it without synchronisation, so that the server it
\* shuts down is the replaced one or the new one.
PrevFirstHook(new) ==
    /\ ~crashed
    /\ prev.first
    /\ prev' = [prev EXCEPT !.first = FALSE, !.hit = new]
    /\ IF new
       THEN IF AlreadyShutdown
            THEN /\ crashed' = ~Recovered
                 /\ srv' = [srv EXCEPT !.u1 = (conf.hrev = 2)]
            ELSE /\ srv' = [srv EXCEPT !.u1 = (conf.hrev = 2), !.shut = TRUE]
                 /\ UNCHANGED crashed
       ELSE /\ srv' = [srv EXCEPT !.u1 = (conf.hrev = 2)]
            /\ UNCHANGED crashed
    /\ UNCHANGED <<conf, upd, reg2, buf, ctxVars, regVars, chanVars, wpc, runVars, tasks, api,
                   callVars, hist>>

\* rundeferred of the replaced Superchan returns: s.deferfuncs = nil.
PrevRunnerEnds ==
    /\ ~crashed
    /\ prev.live
    /\ ~prev.dead
    /\ ~prev.first
    /\ prev' = [prev EXCEPT !.dead = TRUE]
    /\ UNCHANGED <<conf, upd, reg2, buf, srv, ctxVars, regVars, chanVars, wpc, runVars, tasks, api,
                   crashed, callVars, hist>>

\* An HttpServer that is served, shut down, refreshed by the application and
\* served again.
InitRefresh ==
    /\ InitCore
    /\ upd = NoUpdates
    /\ srv = NewServer
    /\ prev = NoRefresh
    /\ reg2 = NewRegistry
    /\ buf = NoChannel
    /\ conf \in [kind : {"Main"}, rev : {1}, parallel : {FALSE}, cbd : BOOLEAN,
                 ugd : BOOLEAN, hrev : {1, 2}, ocb : {TRUE}, https : {FALSE}]
    /\ wpc = "construct"
    /\ cpc = [i \in Callers |-> "unused"]
    /\ cerr = [i \in Callers |-> Nil]

NextRefresh ==
    \/ MainConstruct
    \/ wpc # "construct" /\ ExternalCancel("E1")
    \/ RaiseSignal
    \/ MainSelectDone
    \/ MainSignal
    \/ MainRunAfterCancel
    \/ MainCancelAfterRun
    \/ MainAfterRun
    \/ MainStop
    \/ RunFirst
    \/ RunRange
    \/ RunLast
    \/ RunClear
    \/ \E h \in Hooks : HookStart(h)
    \/ \E h \in Hooks : HttpHookEnd(h)
    \/ LasaCall
    \/ LasaStep
    \/ \E k \in Listeners : ListenerClosed(k)
    \/ \E k \in Listeners : ListenerFails(k)
    \/ \E k \in Listeners : ListenerExit(k)
    \/ \E nc \in BOOLEAN, rf \in {"none", "err"} : RefreshCall(nc, rf)
    \/ \E new \in BOOLEAN : PrevFirstHook(new)
    \/ PrevRunnerEnds

SpecRefresh == InitRefresh /\ [][NextRefresh]_vars

\* ------------------------------------------------------------------ C2
\* The first run of rundeferred has called every hook and all have returned;
\* the registry is DeferFirst(F), Defer(A); Defer(B); Defer(C), DeferLast(L).
C2_AllRan ==
    /\ rpc = "waitLast" /\ Active = {} /\ runs.started = 1
    /\ deferfirst = "F" /\ deferfuncs.fns = <<"C", "B", "A">> /\ deferlast = "L"

\* C2 (as claimed): the hooks are executed in exactly the order F, C, B, A, L,
\* whether UseGoroutineDefer is false or true.
C2_Original == C2_AllRan => ran = <<"F", "C", "B", "A", "L">>

\* C2 (amended): each hook is executed once; with UseGoroutineDefer false the
\* order is exactly F, C, B, A, L; with UseGoroutineDefer true F is executed
\* first and L last, and C, B, A are executed between them in any order.
C2_Order ==
    C2_AllRan =>
        /\ Len(ran) = 5
        /\ ran[1] = "F" /\ ran[5] = "L"
        /\ {ran[2], ran[3], ran[4]} = Ordered
        /\ ~UseGoroutineDefer => ran = <<"F", "C", "B", "A", "L">>

\* A fan-out run in which the ordered hooks began in registration order.
C2_Witness == C2_AllRan /\ UseGoroutineDefer /\ ran = <<"F", "A", "B", "C", "L">>

\* ------------------------------------------------------------------ C3
\* C3: once the context of a Superchan built by New is cancelled, the worker
\* runs the cleanup registry exactly once and then exits: a worker that has
\* left its loop has completed one run of rundeferred and IsDead() is true.
C3_ExitAfterCleanup == wpc = "exit" => (runs.finished = 1 /\ IsDead)

\* ------------------------------------------------------------------ C7
\* The handler has begun for task j (it was, or is being, passed its item).
HandlerCalled(j) ==
    \/ tasks[j].st \in {"handler", "offer"}
    \/ tasks[j].st = "done" /\ tasks[j].res # "skipped"

\* C7: in a pipeline (stated here for revision 1, the one with
\* handledoublein), when the handler's error for item Z became the cause of
\* the inbound scope, Z is not forwarded to outbound, no item received after
\* Z is passed to the handler, and the worker has run the inbound cleanup
\* registry exactly once by the time it exits.
C7_HandlerError ==
    \A i \in 1..Len(tasks) :
        (conf.rev = 1 /\ tasks[i].item = "Z" /\ tasks[i].st = "done"
         /\ cause["in"] = ErrZ) =>
            /\ \A k \in 1..Len(ch2.q) : ch2.q[k] # "Z"
            /\ \A j \in (i + 1)..Len(tasks) : ~HandlerCalled(j)
            /\ runs.started <= 1
            /\ wpc = "exit" => runs.finished = 1

\* ------------------------------------------------------------------ C8
\* C8: with a handler that forwards its items unchanged, no cancellation and
\* outbound never drained, the forward step never blocks the worker: the
\* worker never waits on a full outbound buffer, exactly the first ChanCap
\* items are enqueued on outbound and every later one is dropped.
C8_Unchanged == \A i \in 1..Len(tasks) : tasks[i].item = "X"

C8_ForwardNeverBlocks ==
    (C8_Unchanged /\ ~done["in"] /\ ~done["out"]) =>
        /\ wpc = "forward" => Len(ch2.q) < ChanCap
        /\ \A i \in 1..Len(tasks) :
              (tasks[i].st = "done" /\ conf.rev = 1 /\ ~conf.parallel) =>
                  tasks[i].res = (IF i <= ChanCap THEN "sent" ELSE "dropped")
        /\ \A i \in 1..Len(tasks) :
              tasks[i].res = "dropped" => Len(ch2.q) = ChanCap

\* ------------------------------------------------------------------ C9
NoDuplicates(s) == \A i, j \in 1..Len(s) : s[i] = s[j] => i = j

\* The scenario of C9: the parent is live and nobody else called Cancel.
C9_SignalOnly == ~done["parent"] /\ cause["in"] \notin Errs

\* C9: for a Superchan built by NewMain, with a live parent and no other
\* Cancel: once the signal was raised the worker eventually exits with the
\* context done, the cause MakeSignalError(signal) and one finished run of
\* rundeferred; rundeferred never starts twice and no hook is executed
\* twice, however often the signal is raised; after the worker's exit a
\* further signal changes neither the cause, the runs nor the hooks.
C9_AfterSignal ==
    (C9_SignalOnly /\ wpc = "exit") =>
        /\ done["in"] /\ cause["in"] = SigErr
        /\ runs = [started |-> 1, panics |-> 0, finished |-> 1]

C9_SignalOnce ==
    /\ [](C9_AfterSignal /\ runs.started <= 1 /\ NoDuplicates(ran))
    /\ [][wpc = "exit" =>
            UNCHANGED <<done["in"], cause["in"], runs, ran, hst>>]_vars
    /\ (hist.raised >= 1 /\ wpc # "none")
          ~> (~C9_SignalOnly \/ (wpc = "exit" /\ cause["in"] = SigErr))

\* The signal was raised twice, the worker took it once and has exited
\* after running F, A and L.
C9_Witness ==
    /\ hist.raised = 2 /\ wpc = "exit" /\ C9_SignalOnly
    /\ cause["in"] = SigErr /\ runs.finished = 1
    /\ ran = <<"F", "A", "L">>

\* ------------------------------------------------------------------ C10
\* C10: in the NewMain worker, with CancelBeforeDefer the context is done
\* before any hook starts; without it the worker cancels the context only
\* after every hook has finished and the registry is dead, so whoever sees the
\* context done with the signal as its cause sees IsDead() true.
C10_CancelOrder ==
    /\ CancelBeforeDefer => (ran # <<>> => done["in"])
    /\ ~CancelBeforeDefer =>
          (cause["in"] = SigErr => (IsDead /\ Active = {} /\ runs.finished = 1))

\* ------------------------------------------------------------------ C4
\* C4: Defer, DeferFirst and DeferLast called on a Superchan whose context is
\* done (cancelled by Cancel or through its parent) panic with "cannot defer
\* after cancel" and leave deferfuncs, deferfirst and deferlast unchanged.
C4_RegistrationCall ==
    \/ \E fs \in DeferArgs : DeferCall(fs)
    \/ DeferFirstCall("F")
    \/ DeferLastCall("L")

C4_PanicAfterCancel ==
    [][(done["in"] /\ C4_RegistrationCall) =>
          /\ api'.panic = "cannot defer after cancel"
          /\ api'.op \in {"Defer", "DeferFirst", "DeferLast"}
          /\ UNCHANGED regVars]_vars

\* Defer panicked on a Superchan cancelled through its parent, with a func
\* registered before the cancellation still in the list and an empty slot
\* still empty.
C4_Witness ==
    /\ api = [op |-> "Defer", panic |-> "cannot defer after cancel"]
    /\ cause["in"] = PErr
    /\ deferfuncs = Funcs(<<"A">>) /\ deferfirst = Nil /\ deferlast = "L"

\* ------------------------------------------------------------------ C5
\* C5: rundeferred passes its guard at most once per Superchan: every later
\* invocation panics at the guard and runs no hook.
C5_RunsAtMostOnce == runs.started <= 1

\* ------------------------------------------------------------------ C6
\* C6: IsDead() is false until a run of rundeferred has finished, and once
\* true it stays true.
C6_DeadOnlyAfterRunAndForever ==
    [][/\ IsDead' => runs'.finished >= 1
       /\ IsDead => IsDead']_vars

\* ------------------------------------------------------------------ C11
\* The funcs the run in progress has to execute.
Registered == ({deferfirst, deferlast} \ {Nil}) \cup Range(deferfuncs.fns)

\* C11: with UseGoroutineDefer, a hook that panics is contained: no goroutine
\* dies of it, the hooks of a phase are all executed before the next phase
\* begins and all registered hooks are executed before rundeferred clears the
\* registry, and a run that began always returns with the registry dead.
C11_Contained ==
    UseGoroutineDefer =>
        /\ ~crashed
        /\ (rpc = "ordered" /\ deferfirst # Nil) =>
               hst[deferfirst] \in {"done", "panicked"}
        /\ (rpc = "waitLast" /\ Active = {}) =>
               \A h \in Registered : hst[h] \in {"done", "panicked"}
        /\ rpc = "returned" => (IsDead /\ Active = {} /\ runs.finished = 1)

C11_PanicContained ==
    /\ []C11_Contained
    /\ (UseGoroutineDefer /\ rpc = "first") ~> (rpc = "returned" /\ IsDead)

\* A fan-out run has returned in which the first hook, an ordered hook and
\* the last hook panicked and the other ordered hooks returned.
C11_Witness ==
    /\ UseGoroutineDefer /\ rpc = "returned" /\ IsDead
    /\ hst = [F |-> "panicked", A |-> "done", B |-> "panicked", C |-> "done",
              L |-> "panicked"]

\* ------------------------------------------------------------------ C12
WaitReturned(w) == wst[w] \in {"sawdead", "timedout"}

\* C12: Superchan.Wait() does not get past s.Chan.Wait() before the context is
\* done and what it returns is the cause; it returns through the IsDead()
\* poll only when the registry is dead; once the context is done a call in
\* progress eventually returns, by the poll or by the timeout; and hooks
\* still running when it returned by timeout complete afterwards.
C12_Safe ==
    \A w \in Waiters :
        /\ wst[w] \notin {"idle", "blocked"} => done["in"]
        /\ wst[w] \in {"returned", "poll", "sawdead", "timedout"} =>
               (wret[w] = cause["in"] /\ wret[w] # Nil)
        /\ wst[w] = "sawdead" => (IsDead /\ runs.finished >= 1)

C12_WaitReturnsCause ==
    /\ []C12_Safe
    /\ \A w \in Waiters :
          (wst[w] # "idle" /\ done["in"]) ~> WaitReturned(w)
    /\ \A w \in Waiters :
          (wst[w] = "timedout" /\ ~crashed) ~> (Active = {} \/ crashed)

\* A Wait() has returned the signal's cause by timeout while hook A was still
\* running; another caller is still polling.
C12_Witness ==
    /\ wst[1] = "timedout" /\ wret[1] = SigErr
    /\ hst["A"] = "running" /\ ~IsDead
    /\ wst[2] = "poll"

\* ------------------------------------------------------------------ C13
\* The scope c became done in this step.
BecameDone(c) == ~done[c] /\ done'[c]

\* C13: a scope that becomes done takes every scope derived from it along:
\* a derived scope that was not done becomes done in the same step with the
\* same cause, one that was done keeps its cause; so the parent's
\* cancellation reaches inbound and outbound and inbound's reaches outbound.
\* Cancel on the outbound scope changes neither done nor cause of the
\* inbound scope or of the parent.
C13_Follows(x, c) ==
    /\ done'[x]
    /\ cause'[x] = (IF done[x] THEN cause[x] ELSE cause'[c])

C13_TreeSemantics ==
    [][/\ BecameDone("parent") =>
              (C13_Follows("in", "parent") /\ C13_Follows("out", "parent"))
       /\ BecameDone("in") => C13_Follows("out", "in")
       /\ (\E e \in Errs : ExternalCancel2(e)) =>
              /\ done'["in"] = done["in"] /\ cause'["in"] = cause["in"]
              /\ done'["parent"] = done["parent"]
              /\ cause'["parent"] = cause["parent"]
       /\ (\E e \in Errs : ExternalCancel(e)) =>
              /\ done'["parent"] = done["parent"]
              /\ cause'["parent"] = cause["parent"]]_vars

\* The outbound scope was cancelled first and kept its cause, the inbound
\* scope is still live after that; later the parent was cancelled and the
\* inbound scope took the parent's cause.
C13_Witness ==
    /\ cause = [parent |-> PErr, in |-> PErr, out |-> "E2"]
    /\ done = [c \in Ctxs |-> TRUE]
    /\ conf.rev = 1

\* ------------------------------------------------------------------ C14
\* Caller i's Cancel(err_i) call happened in this step.
CancelReturned(i) == cpc[i] = "ready" /\ cpc'[i] = "returned"

\* What holds of every step whatever the first cancellation records: the
\* cause is nil while the scope is live, a parent cancellation that comes
\* first gives the parent's cause, a cause once set never changes, and every
\* Cancel call returns normally and leaves the scope done.
C14_Common ==
    /\ ~done["in"] => cause["in"] = Nil
    /\ done["in"] => (done'["in"] /\ cause'["in"] = cause["in"])
    /\ (BecameDone("parent") /\ ~done["in"]) =>
           (done'["in"] /\ cause'["in"] = cause'["parent"])
    /\ \A i \in Callers : CancelReturned(i) => (done'["in"] /\ ~crashed')

\* C14 (as claimed): the cause equals the value supplied by the first Cancel.
C14_Original ==
    [][/\ C14_Common
       /\ \A i \in Callers :
              (CancelReturned(i) /\ ~done["in"]) => cause'["in"] = cerr[i]]_vars

\* C14 (amended): the cause is the value supplied by the first Cancel when
\* that value is not nil, and context.Canceled when it is nil.
C14_FirstCauseKept ==
    [][/\ C14_Common
       /\ \A i \in Callers :
              (CancelReturned(i) /\ ~done["in"]) =>
                  cause'["in"] = (IF cerr[i] = Nil THEN Canceled ELSE cerr[i])]_vars

\* Cancel(E2) came first, then the parent was cancelled and the other callers
\* called Cancel(E1) and Cancel(nil): the cause is still E2.
C14_Witness ==
    /\ \A i \in Callers : cpc[i] = "returned"
    /\ cerr[1] = "E1" /\ cerr[2] = "E2" /\ cerr[3] = Nil
    /\ hist.winner = 2
    /\ cause["parent"] = PErr /\ cause["in"] = "E2"

\* ------------------------------------------------------------------ C15
\* C15: DeferFirst and DeferLast each succeed at most once per Superchan: a
\* call that finds its slot set panics and leaves deferfuncs, deferfirst and
\* deferlast as they are; a call that sets its slot leaves the other slot and
\* deferfuncs as they are; and no call sets a slot whose func was set before
\* (and has since been executed by rundeferred).
C15_SlotsSetOnce ==
    [][/\ (deferfirst # Nil /\ DeferFirstCall("F")) =>
              (api'.op = "DeferFirst" /\ api'.panic # "none" /\ UNCHANGED regVars)
       /\ (deferlast # Nil /\ DeferLastCall("L")) =>
              (api'.op = "DeferLast" /\ api'.panic # "none" /\ UNCHANGED regVars)
       /\ (deferfirst = Nil /\ deferfirst' # Nil) =>
              (hst["F"] = "no" /\ UNCHANGED <<deferfuncs, deferlast>>)
       /\ (deferlast = Nil /\ deferlast' # Nil) =>
              (hst["L"] = "no" /\ UNCHANGED <<deferfuncs, deferfirst>>)]_vars

\* ------------------------------------------------------------------ C16
\* C16: the pipeline worker leaves its loop only because a scope was
\* cancelled, and it has run the inbound cleanup registry (one finished run of
\* rundeferred) by the time it has exited.
C16_CleanupBeforeExit ==
    wpc = "exit" =>
        /\ done["in"] \/ done["out"]
        /\ runs.started = 1 /\ runs.finished = 1

\* ------------------------------------------------------------------ C17
\* C17: when the outbound scope was cancelled on its own with cause E2 and
\* nothing else cancelled the inbound scope (no Cancel on it, no handler
\* error), the worker makes the inbound scope done with cause E2: that has
\* happened by the time the worker has exited.
C17_OutboundCauseReported ==
    (wpc = "exit" /\ cause["out"] = "E2" /\ cause["in"] \notin {"E1", ErrZ}) =>
        (done["in"] /\ cause["in"] = "E2")

\* ------------------------------------------------------------------ C18
\* The number of elements of s that equal v.
RECURSIVE Count(_, _)
Count(s, v) ==
    IF s = <<>> THEN 0
    ELSE (IF Head(s) = v THEN 1 ELSE 0) + Count(Tail(s), v)

\* handledoublein has finished item i after its handler returned nil.
C18_Handled(i) ==
    /\ tasks[i].st = "done" /\ tasks[i].res # "skipped"
    /\ HandlerErr(tasks[i].item) = Nil

\* The values handledoublein has put on outbound, one per task that sent.
C18_Sent(v) ==
    Cardinality({i \in 1..Len(tasks) : tasks[i].res = "sent" /\
                    (IF tasks[i].item = "T" THEN "T2" ELSE tasks[i].item) = v})

\* C18 (handledoublein, revision 1): an item whose slot the handler nulled
\* is not offered to outbound; any other item whose handler returned nil is
\* offered exactly once, as the value the handler left in the slot (T2 for
\* T); outbound, which nobody drains, holds exactly the values that were
\* sent, so never a nil, an original T or an item whose handler failed.
C18_SlotForwarded ==
    conf.rev = 1 =>
        /\ \A i \in 1..Len(tasks) :
              C18_Handled(i) =>
                  IF tasks[i].item = "N" THEN tasks[i].res = "nulled"
                  ELSE tasks[i].res \in {"sent", "dropped", "cancelled", "panic"}
        /\ \A v \in {"X", "T", "T2", "N", "Z", Nil} : Count(ch2.q, v) = C18_Sent(v)
        /\ \A k \in 1..Len(ch2.q) : ch2.q[k] \in {"X", "T2"}

\* T was handled and its replacement T2 is on outbound; N was handled and
\* nothing was offered for it.
C18_Witness ==
    /\ conf.rev = 1 /\ Len(tasks) = 2
    /\ tasks[1] = [item |-> "N", st |-> "done", res |-> "nulled"]
    /\ tasks[2] = [item |-> "T", st |-> "done", res |-> "sent"]
    /\ ch2.q = <<"T2">>

\* ------------------------------------------------------------------ C19
\* C19: the NewMain worker stops signal delivery and closes the channel only
\* after rundeferred has returned to it, it closes the channel once (no
\* close of a closed channel), and when it has exited, on either path, signal
\* delivery is stopped and the channel is closed.
C19_StopAndCloseOnExit ==
    /\ (notify = "stopped" \/ ch.closed) => (rpc = "returned" /\ runs.finished = 1)
    /\ ~crashed
    /\ wpc = "exit" => (notify = "stopped" /\ ch.closed)

\* ------------------------------------------------------------------ C20
\* The constructor has started its background worker (which may have exited
\* since).
WorkerStarted == wpc \notin {"construct", "none"}

\* C20 (as claimed): once the constructor has returned, NewMain, New and
\* NewDouble have started their worker, whatever the state of the parent,
\* and NewRaw has started none.
C20_Original ==
    wpc # "construct" => (WorkerStarted <=> conf.kind # "Raw")

\* C20 (amended): NewRaw starts no worker; New and NewDouble always start
\* one; NewMain starts one exactly when the context is not already done as
\* the constructor checks it, and none when the parent was cancelled before.
C20_Constructed ==
    /\ conf.kind = "Raw" => ~WorkerStarted
    /\ (conf.kind \in {"New", "Double"} /\ wpc # "construct") => WorkerStarted
    /\ (conf.kind = "Main" /\ wpc = "none") => (done["in"] /\ cause["in"] = PErr)

C20_OneWorkerUnlessDone ==
    /\ []C20_Constructed
    /\ [][(conf.kind = "Main" /\ wpc = "construct" /\ wpc' # "construct") =>
              (WorkerStarted' <=> ~done["in"])]_vars

\* NewMain has returned under a parent cancelled before the call: signal
\* delivery is on and there is no worker.
C20_Witness ==
    /\ conf.kind = "Main" /\ wpc = "none" /\ notify = "on"
    /\ cause["in"] = PErr

\* ------------------------------------------------------------------ C21
\* C21: once rundeferred has started on a Superchan, deferfuncs, deferfirst
\* and deferlast are changed by the runner's final clearing only (no Defer,
\* DeferFirst or DeferLast succeeds), and what the runner clears has been run.
C21_RegistryFrozenByRunner ==
    [][runs.started > 0 =>
          \/ UNCHANGED regVars
          \/ /\ rpc = "waitLast" /\ rpc' = "returned"
             /\ \A h \in Range(deferfuncs.fns) \cup ({deferfirst, deferlast} \ {Nil}) :
                   hst[h] # "no"]_vars

\* ------------------------------------------------------------------ C22
\* The call of Updates / Updates2 under way returns in this step.
DrainReturns(op) == upd.pc = "loop" /\ upd.op = op /\ upd'.pc = "returned"

\* C22: with one consumer and no concurrent sender, Updates() returns the
\* items queued at the call in FIFO order as a non-nil slice and leaves the
\* queue empty; Updates2() returns the same items, or nil when nothing is
\* queued, and every Updates2() call returns.
C22_DrainReturnsQueue ==
    /\ [][DrainReturns("Updates") =>
             (upd'.ret = Slice(upd.snap) /\ ch'.q = <<>>)]_vars
    /\ [][DrainReturns("Updates2") =>
             (upd'.ret = IF upd.snap = <<>> THEN NilSlice ELSE Slice(upd.snap))]_vars
    /\ (upd.pc = "loop" /\ upd.op = "Updates2") ~> (upd.pc = "returned")

\* ------------------------------------------------------------------ C23
\* Goroutine i's call of CloseChan ends in this step.
CloseChanEnds(i) == cpc[i] = "ready" /\ cpc'[i] # "ready"

\* The worker (revision 1) has closed the channel on its way out.
WorkerClosed == conf.rev = 1 /\ wpc = "exit" /\ ~crashed

\* C23: CloseChan closes an open channel and panics on a closed one, whether
\* a caller or the worker closed it, so the channel is closed once; it leaves
\* the context and the buffered items alone; a Cancel call leaves the channel,
\* open or closed, and its items alone.
C23_CloseOnce ==
    /\ [][\A i \in Callers : CloseChanEnds(i) =>
             /\ IF ch.closed
                THEN cpc'[i] = "panicked" /\ ch' = ch
                ELSE cpc'[i] = "returned" /\ ch'.closed /\ ch'.q = ch.q
             /\ UNCHANGED ctxVars]_vars
    /\ [](Cardinality({i \in Callers : cpc[i] = "returned"})
              + (IF WorkerClosed THEN 1 ELSE 0) <= 1)
    /\ [][ch.closed => ch'.closed]_vars
    /\ [][(done' # done /\ wpc' = wpc) => (ch' = ch /\ ch2' = ch2)]_vars

\* The worker closed the channel and a later CloseChan panicked, with a
\* signal still buffered and the context cancelled by a caller.
C23_Witness ==
    /\ WorkerClosed /\ ch.closed /\ ch.q = <<Sig>> /\ cause["in"] = "E1"
    /\ cpc[1] = "panicked" /\ cpc[2] = "ready"

\* ------------------------------------------------------------------ C25
\* The handler invocations that were started and have not returned.
InProgress == {i \in 1..Len(tasks) : tasks[i].st # "done"}

\* The worker receives an item in this step.
Receives == Len(tasks') = Len(tasks) + 1

Misuse ==
    \/ conf.kind = "Main" /\ NoSignals
    \/ conf.kind \in {"New", "Double"} /\ NoHandler

Started(h) == hst[h] # "no"
\* Hook h is not in progress: never started, returned or panicked.
NotRunning(h) == hst[h] \notin {"spawned", "running"}

\* C27: with UseGoroutineDefer, no ordered hook is started while the first
\* hook is in progress, the last hook is not started while any other hook is
\* in progress, and the registry becomes dead only when no hook is in
\* progress and the last hook, if registered, has finished.
C27_Barriers ==
    /\ [](UseGoroutineDefer =>
             /\ (\E h \in Ordered : Started(h)) => NotRunning("F")
             /\ Started("L") => \A h \in Ordered \cup {"F"} : NotRunning(h))
    /\ [][(UseGoroutineDefer /\ ~IsDead /\ IsDead') =>
             /\ Active = {}
             /\ deferlast # Nil => hst[deferlast] \in {"done", "panicked"}]_vars

\* The first hook panicked; the three ordered hooks, spawned in the order
\* C, B, A, run at the same time and began in the order B, C, A; the last
\* hook is still to come.
C27_Witness ==
    /\ UseGoroutineDefer /\ rpc = "ordered" /\ hst["F"] = "panicked"
    /\ \A h \in Ordered : hst[h] = "running"
    /\ ran = <<"F", "B", "C", "A">> /\ deferlast = "L" /\ hst["L"] = "no"

\* ------------------------------------------------------------------ C28
\* The handler invocation for task i returns in this step.
HandlerReturns(i) == tasks[i].st = "handler" /\ tasks'[i].st = "done"

\* C28: in New, a handler returning an error cancels the scope, that error
\* being the cause if none was set; and once a cause is set the worker hands
\* no further item to the handler, in sequential and in parallel mode.
C28_ErrorStopsHandling ==
    /\ [][\A i \in 1..Len(tasks) :
             (HandlerReturns(i) /\ HandlerErr(tasks[i].item) # Nil) =>
                 /\ done'["in"]
                 /\ cause'["in"] = IF cause["in"] = Nil THEN HandlerErr(tasks[i].item)
                                   ELSE cause["in"]]_vars
    /\ [][Receives => cause["in"] = Nil]_vars

\* ------------------------------------------------------------------ C24
\* ListenAndServeAll got past its checks and through listenAndServe.
Served == srv.pc \in {"cause", "returned"} /\ srv.ret # ErrAlready

\* C24: ListenAndServeAll returns from listenAndServe only when the func
\* given to DeferLast has run and every listener goroutine has exited; once
\* the Superchan is cancelled a call under way returns, whatever
\* OneClosesBoth is; shutdownfunc1 and the server shutdown come before every
\* func given to Defer, and shutdownfunc comes after all of them.
C24_Safe ==
    /\ Served => /\ hst["L"] = "done"
                 /\ \A k \in Listeners : srv.lis[k] \in {"off", "exited"}
    /\ \A h \in Ordered :
          (Started(h) /\ Started("F")) =>
              (hst["F"] = "done" /\ srv.shut /\ (conf.hrev = 2 => srv.u1))
    /\ (conf.hrev = 2 /\ srv.uL) =>
          (srv.u1 /\ srv.shut /\ \A h \in Ordered : NotRunning(h))

C24_ServeUntilCleanedUp ==
    /\ []C24_Safe
    /\ (done["in"] /\ srv.pc \notin {"idle", "returned"}) ~> (srv.pc = "returned")

\* ------------------------------------------------------------------ C30
\* ListenAndServeAll is entered in this step.
LasaEnters == srv.pc = "idle" /\ srv'.pc # "idle"

\* C30: ListenAndServeAll called on a cancelled server returns an error and
\* registers no func and starts no listener; otherwise it returns the cause
\* of the Superchan, which is the signal's or the caller's error and not
\* "http(s) listener died" unless a listener died of itself.
C30_Entry ==
    LasaEnters =>
        IF done["in"]
        THEN /\ srv'.pc = "returned" /\ srv'.ret = ErrAlready
             /\ srv'.lis = srv.lis /\ srv'.wg = srv.wg
             /\ UNCHANGED <<regVars, ctxVars>>
        ELSE srv'.pc = "deferfirst"

C30_Returned ==
    /\ srv.ret = ErrAlready => \A k \in Listeners : srv.lis[k] = "off"
    /\ (srv.pc = "returned" /\ Served) =>
          /\ srv.ret = cause["in"]
          /\ srv.ret # Nil
          /\ ~srv.failed => srv.ret \notin {ListenerDied(k) : k \in Listeners}

C30_ReturnsFirstCause ==
    /\ [][C30_Entry]_vars
    /\ []C30_Returned

\* ------------------------------------------------------------------ C29
\* Refresh returns in this step (without an error of refreshfunc).
Refreshed == prev'.refreshes = prev.refreshes + 1 /\ prev'.ret = Nil

\* C29: Refresh succeeds only on a cancelled Superchan; the Superchan it
\* installs has no cause, an empty registry that is not dead and no first or
\* last func, and the server's already-shutdown sentinel is cleared; the
\* Superchan it replaced is and stays dead; the second ListenAndServeAll /
\* shutdown cycle raises none of the panics "deferfirst already set", "cannot
\* defer after cancel", "already shutdown".
C29_Step ==
    /\ Refreshed =>
          /\ done["in"]
          /\ ~done'["in"] /\ cause'["in"] = Nil
          /\ deferfuncs' = Funcs(<<>>) /\ deferfirst' = Nil /\ deferlast' = Nil
          /\ ~srv'.shut
          /\ prev'.dead
    /\ prev.dead => prev'.dead

C29_SecondCycle ==
    prev.refreshes > 0 =>
        /\ srv.pc # "panicked"
        /\ hst["F"] # "panicked"

C29_RefreshStartsOver ==
    /\ [][C29_Step]_vars
    /\ []C29_SecondCycle

\* ------------------------------------------------------------------ C31
\* A hook called directly by rundeferred has panicked.
DirectPanic == ~UseGoroutineDefer /\ \E h \in Hooks : hst[h] = "panicked"

\* C31: with UseGoroutineDefer false a panicking hook unwinds rundeferred: it
\* is the last hook that was begun, no hook after it is ever run, rundeferred
\* does not return and the registry is never marked dead.
C31_Unwound ==
    DirectPanic =>
        /\ crashed
        /\ ran # <<>> /\ hst[ran[Len(ran)]] = "panicked"
        /\ \A h \in Hooks : hst[h] \in {"no", "done", "panicked"}
        /\ Cardinality({h \in Hooks : hst[h] = "panicked"}) = 1
        /\ rpc # "returned" /\ runs.finished = 0
        /\ ~IsDead

C31_SequentialPanicEscapes ==
    /\ []C31_Unwound
    /\ [][DirectPanic => UNCHANGED <<runVars, regVars>>]_vars

\* The first hook panicked in a direct call while ordered hooks and a last
\* hook were registered: none of them has run.
C31_Witness ==
    /\ ~UseGoroutineDefer /\ hst["F"] = "panicked"
    /\ Len(deferfuncs.fns) >= 2 /\ deferlast = "L"
    /\ \A h \in Hooks \ {"F"} : hst[h] = "no"

\* ------------------------------------------------------------------ C32
\* C32: with parallel = TRUE no handler task stands at its offer to the
\* outbound channel once the worker has closed that channel, and no task's
\* send panicked.
C32_NoOfferAfterClose ==
    conf.parallel =>
        \A i \in 1..Len(tasks) :
            /\ ~(tasks[i].st = "offer" /\ ch2.closed)
            /\ tasks[i].res # "panic"

\* ------------------------------------------------------------------ C33
\* C33: whenever the worker has closed the inbound channel, the inbound scope
\* is cancelled and has a cause.
C33_ClosedImpliesCancelled ==
    (conf.kind = "Double" /\ ch.closed) => (done["in"] /\ cause["in"] # Nil)

\* ------------------------------------------------------------------ C34
\* C34: the pipeline never runs or clears the registry of the outbound
\* Superchan: none of its funcs is run, a registered func stays registered,
\* and the outbound Superchan is never dead.
C34_Kept ==
    /\ reg2.deferfirst # Nil => reg2'.deferfirst = reg2.deferfirst
    /\ reg2.deferlast # Nil => reg2'.deferlast = reg2.deferlast
    /\ \A k \in 1..Len(reg2.deferfuncs.fns) :
          /\ Len(reg2'.deferfuncs.fns) >= Len(reg2.deferfuncs.fns)
          /\ reg2'.deferfuncs.fns[Len(reg2'.deferfuncs.fns) - Len(reg2.deferfuncs.fns) + k]
                = reg2.deferfuncs.fns[k]

C34_OutboundRegistryUntouched ==
    /\ [](reg2.ran = <<>> /\ ~reg2.deferfuncs.isnil)
    /\ [][C34_Kept]_vars

\* Both scopes are cancelled, the worker ran the inbound registry and has
\* exited, and the outbound registry still holds a first, an ordered and a
\* last func.
C34_Witness ==
    /\ conf.kind = "Double" /\ done["in"] /\ done["out"] /\ wpc = "exit"
    /\ runs.finished = 1
    /\ reg2.deferfirst = "F2" /\ reg2.deferlast = "L2" /\ reg2.deferfuncs.fns # <<>>
    /\ reg2.ran = <<>> /\ ~reg2.deferfuncs.isnil

\* ------------------------------------------------------------------ C35
\* Every value enqueued on outbound so far: those the consumer received, then
\* those still queued.
Enqueued == hist.got \o ch2.q

\* What the pipeline forwards for an inbound item: the value the handler left
\* in the slot (revision 1), the item itself (revision 2).
Forwarded(x) == IF conf.rev = 1 THEN HandlerOut(x) ELSE x

\* The inbound items in the order the worker received them, as forwarded.
Outputs == [i \in 1..Len(tasks) |-> Forwarded(tasks[i].item)]

\* a is b with some elements left out.
RECURSIVE IsSubsequence(_, _)
IsSubsequence(a, b) ==
    IF a = <<>> THEN TRUE
    ELSE IF b = <<>> THEN FALSE
    ELSE IF Head(a) = Head(b) THEN IsSubsequence(Tail(a), Tail(b))
    ELSE IsSubsequence(a, Tail(b))

\* C35: with parallel = FALSE the values enqueued on outbound are, in order,
\* handler outputs of distinct inbound items taken in inbound order.
C35_OrderPreserved ==
    ~conf.parallel => IsSubsequence(Enqueued, Outputs)

\* Two different items were forwarded one after the other.
C35_Witness ==
    /\ ~conf.parallel /\ Len(tasks) = 2
    /\ Len(Enqueued) = 2 /\ Enqueued[1] # Enqueued[2]

\* ------------------------------------------------------------------ C36
\* C36: an Updates2() call made or still running after the channel was
\* closed returns, and what it returns are the items that were still queued.
C36_Updates2EndsOnClosed ==
    /\ (upd.pc = "loop" /\ upd.op = "Updates2" /\ ch.closed) ~> (upd.pc = "returned")
    /\ [][(DrainReturns("Updates2") /\ ch.closed) =>
             (upd'.ret = IF upd.snap = <<>> THEN NilSlice ELSE Slice(upd.snap))]_vars

\* ------------------------------------------------------------------ C37
\* C37: the number of queued items never exceeds the capacity the channel
\* was made with, which is CHANBUFSIZE at that time for a channel the library
\* makes, and no later SetChanSize changes that capacity.
C37_Made == buf.made => (buf'.made /\ buf'.cap = buf.cap)

C37_CapacityFixed ==
    /\ [](Len(ch.q) <= buf.cap)
    /\ [][C37_Made]_vars

\* The channel was made with capacity 1, CHANBUFSIZE was raised afterwards
\* and the channel is full with one item.
C37_Witness ==
    /\ buf.made /\ buf.cap = 1 /\ buf.size > 1 /\ Len(ch.q) = 1

====
